---- MODULE Spec2Model ----
(***************************************************************************)
(* A model of the anki_sync reconciliation engine: the vocabulary source   *)
(* file, the sync-state file, the remote flashcard collection and the two  *)
(* reconcilers, PushHandler.execute and PullHandler.execute.               *)
(*                                                                         *)
(* Texts are sequences of one-character strings, so that lower() and       *)
(* strip() are computed character by character.  A content hash is         *)
(* modelled by the canonical content it digests (the digest is taken to be *)
(* injective on the contents the model builds).  The JSON fields version,  *)
(* deck_name and model_name of the state file are never assigned by either *)
(* reconciler and are left out.                                            *)
(***************************************************************************)
EXTENDS Integers, Sequences, FiniteSets, TLC

VARIABLES
    sourceFile,     \* the vocabulary YAML document: a sequence of records
    stateFile,      \* the state JSON document on disk
    notes,          \* the remote collection: note id -> fields and mod
    nextId,         \* the id the remote gives to the next created note
    now,            \* the wall clock (seconds)
    pc,             \* where the current run stands
    dryRun,         \* the run's dry_run flag
    translations,   \* the run's list of Translation objects
    state,          \* the run's SyncState: timestamps and key -> object id
    heap,           \* the run's CardMapping objects: object id -> fields
    newEntries,     \* Push: new_entries
    updatedEntries, \* Push: updated_entries, as (translation, object id)
    deletedIds,     \* Push: deleted_source_ids
    modifiedNotes,  \* Pull: modified_notes, as (note, object id)
    transById,      \* Pull: trans_by_id, key -> index into translations
    idx,            \* the loop position of the phase under way
    kind,           \* "push" or "pull" during a run
    error,          \* the exception the run ended with, "" if none
    calls,          \* the remote mutation and sync calls the run has issued
    counts,         \* the success / failure counters of the phase under way
    file0,          \* history: both files as they were when the run started
    saves,          \* history: the files the run has written, in order
    remaps,         \* history: the identity remaps the run has made
    prevPush,       \* history: how the last Push ended, "" after any change
    dirty,          \* history: (key, field) the editor changed since a Push
    touched,        \* history: the notes edited remotely since a Push
    remoteErrors,   \* history: the calls of the run the remote failed
    temps,          \* the temporary files beside the two files
    decks,          \* the remote's decks
    models,         \* the remote's note types: name -> field names
    runs, events    \* budgets used so far

runVars == <<pc, dryRun, translations, state, heap, newEntries, updatedEntries,
             deletedIds, modifiedNotes, transById, idx, kind, error, calls,
             counts, file0, saves, remaps, remoteErrors>>
histVars == <<prevPush, dirty, touched>>
diskVars == <<sourceFile, stateFile>>
remoteVars == <<notes, nextId>>
sideVars == <<temps, decks, models>>
vars == <<sourceFile, stateFile, notes, nextId, now, runVars, histVars,
          sideVars, runs, events>>

(***************************************************************************)
(* Bounds of the model.                                                    *)
(***************************************************************************)
MaxRuns == 2        \* runs that get to apply changes, in one behaviour
MaxEvents == 2      \* edits (by the editor, in the remote) and injected failures
MaxEntries == 2     \* entries in the source file

(***************************************************************************)
(* Texts.                                                                  *)
(***************************************************************************)
Whitespace == {" "}

LowerChar(c) == IF c = "A" THEN "a" ELSE IF c = "B" THEN "b" ELSE c

\* str.lower()
Lower(s) == [i \in DOMAIN s |-> LowerChar(s[i])]

RECURSIVE LStrip(_)
LStrip(s) == IF s # <<>> /\ Head(s) \in Whitespace THEN LStrip(Tail(s)) ELSE s

RECURSIVE RStrip(_)
RStrip(s) ==
    IF s # <<>> /\ s[Len(s)] \in Whitespace
    THEN RStrip(SubSeq(s, 1, Len(s) - 1))
    ELSE s

\* str.strip()
Strip(s) == RStrip(LStrip(s))

Empty == <<>>

(***************************************************************************)
(* Translation (models/translation.py).                                    *)
(***************************************************************************)
Fields == {"spanish", "english", "example", "notes", "tags"}

Translation(sp, en, ex, no, tg) ==
    [spanish |-> sp, english |-> en, example |-> ex, notes |-> no, tags |-> tg]

\* a source_id that trims and does not fold the case
SourceIdCaseKept(t) == Strip(t.spanish)

\* Translation.source_id
SourceId(t) == Strip(Lower(t.spanish))

RECURSIVE Insert(_, _)
Insert(x, s) ==
    IF s = <<>> THEN <<x>>
    ELSE IF x <= Head(s) THEN <<x>> \o s
    ELSE <<Head(s)>> \o Insert(x, Tail(s))

RECURSIVE Sorted(_)
\* sorted(tags); a tag is modelled by its rank in the order of the labels
Sorted(s) == IF s = <<>> THEN <<>> ELSE Insert(Head(s), Sorted(Tail(s)))

\* Translation.content_hash: the digest of the JSON of the five fields with
\* the tags sorted, modelled by that content
ContentHash(t) ==
    [spanish |-> t.spanish, english |-> t.english, example |-> t.example,
     notes |-> t.notes, tags |-> Sorted(t.tags)]

\* Translation.to_dict / Translation.from_dict
ToDict(t) ==
    [spanish |-> t.spanish, english |-> t.english, example |-> t.example,
     notes |-> t.notes, tags |-> t.tags]

\* dict.get(key, default)
Get(d, key, default) == IF key \in DOMAIN d THEN d[key] ELSE default

FromDict(d) ==
    Translation(d.spanish, d.english, Get(d, "example", Empty), Get(d, "notes", Empty),
                Get(d, "tags", <<>>))

\* load_translations / the document save_translations writes
LoadTranslations(doc) == [i \in DOMAIN doc |-> FromDict(doc[i])]

DumpTranslations(ts) == [i \in DOMAIN ts |-> ToDict(ts[i])]

(***************************************************************************)
(* CardMapping and SyncState (models/card_mapping.py, sync_state.py).      *)
(***************************************************************************)
NoId == 0           \* None as a note id; the remote's ids start at 1

CardMapping(sid, esen, enes, hash, mod) ==
    [source_id |-> sid, es_en_note_id |-> esen, en_es_note_id |-> enes,
     last_push_hash |-> hash, last_pull_mod |-> mod]

NoMappings == [k \in {} |-> 0]

\* a state file that does not exist loads as SyncState()
NoStateFile ==
    [exists |-> FALSE, last_push |-> 0, last_pull |-> 0, mappings |-> NoMappings]

\* the object a mapping loaded from the file under key k becomes
Loaded(k) == <<"L", k>>

\* the object a reconciler creates for key k during a run
Created(k) == <<"N", k>>

\* SyncState.load: one CardMapping object per key of the file
LoadState(f) ==
    [last_push |-> f.last_push, last_pull |-> f.last_pull,
     table |-> [k \in DOMAIN f.mappings |-> Loaded(k)]]

LoadHeap(f) ==
    [o \in {Loaded(k) : k \in DOMAIN f.mappings} |-> f.mappings[o[2]]]

\* the document SyncState.save writes
DumpState(st, hp) ==
    [exists |-> TRUE, last_push |-> st.last_push, last_pull |-> st.last_pull,
     mappings |-> [k \in DOMAIN st.table |-> hp[st.table[k]]]]

\* SyncState.get_mapping: the object under the key, or none
HasMapping(st, k) == k \in DOMAIN st.table

\* SyncState.find_by_note_id: the objects of the table holding the note id
OwnersOf(st, hp, n) ==
    {o \in {st.table[k] : k \in DOMAIN st.table} :
        hp[o].es_en_note_id = n \/ hp[o].en_es_note_id = n}

Put(f, k, v) == [x \in DOMAIN f \cup {k} |-> IF x = k THEN v ELSE f[x]]

Drop(f, k) == [x \in DOMAIN f \ {k} |-> f[x]]

(***************************************************************************)
(* Configuration (config.py) and the notes PushHandler builds.  The        *)
(* options have their defaults but max_example_length, which is set small, *)
(* and sync.auto_sync_ankiweb, which a Push finds either on or off.        *)
(***************************************************************************)
IncludeExamples == TRUE
IncludeNotes == TRUE
MaxExampleLength == 2       \* cards.max_example_length, set small

Ellipsis == <<".", ".", ".">>

Note(fr, bk, ex, no) == [front |-> fr, back |-> bk, example |-> ex, notes |-> no]

\* PushHandler._build_fields
BuildFields(t, direction) ==
    LET example == IF IncludeExamples /\ t.example # Empty
                      /\ Len(t.example) > MaxExampleLength
                   THEN SubSeq(t.example, 1, MaxExampleLength) \o Ellipsis
                   ELSE t.example
    IN  Note(IF direction = "es_en" THEN t.spanish ELSE t.english,
             IF direction = "es_en" THEN t.english ELSE t.spanish,
             IF IncludeExamples THEN example ELSE Empty,
             IF IncludeNotes THEN t.notes ELSE Empty)

\* a batch whose pairs start with the secondary-to-primary request
DirectionOfSwapped(i) == IF i % 2 = 1 THEN "en_es" ELSE "es_en"

\* the direction of the i-th request of the creation batch, and its entry
DirectionOf(i) == IF i % 2 = 1 THEN "es_en" ELSE "en_es"
EntryOf(i) == (i + 1) \div 2

\* PushHandler._create_new_cards, lines 191-202: two requests per entry
BuildNotes(entries) ==
    [i \in 1..(2 * Len(entries)) |-> BuildFields(entries[EntryOf(i)], DirectionOf(i))]

(***************************************************************************)
(* The remote collection behind AnkiConnectClient (client.py).             *)
(***************************************************************************)
NoNotes == [n \in {} |-> 0]

RemoteNote(f, mod) ==
    [front |-> f.front, back |-> f.back, example |-> f.example,
     notes |-> f.notes, mod |-> mod]

\* the ids addNotes returns: one per request, NoId where creation failed
AddNotesResult(first, n, failed) ==
    [i \in 1..n |->
        IF i \in failed THEN NoId
        ELSE first + Cardinality({j \in 1..(i - 1) : j \notin failed})]

\* the collection after addNotes
AddNotes(ns, reqs, resp, t) ==
    [n \in DOMAIN ns \cup {resp[i] : i \in {j \in DOMAIN resp : resp[j] # NoId}} |->
        IF n \in DOMAIN ns THEN ns[n]
        ELSE RemoteNote(reqs[CHOOSE i \in DOMAIN resp : resp[i] = n], t)]

\* the collection after updateNoteFields
UpdateNoteFields(ns, n, f, t) == [ns EXCEPT ![n] = RemoteNote(f, t)]

\* the collection after deleteNotes
DeleteNotes(ns, ids) == [n \in DOMAIN ns \ ids |-> ns[n]]

\* what the remote can answer a call; none when the call is not issued
Outcomes == {"ok", "api", "conn", "none"}

\* a call the remote failed, as the history keeps it: for a note's cardsInfo
\* the note, otherwise NoId
RemoteError(op, outcome, note) == [op |-> op, outcome |-> outcome, note |-> note]

\* a remote that lets the run go on whatever happened to the connection
FatalNever(outcome) == FALSE

\* client.py:53-62: the outcome is an AnkiConnectionError, which no except
\* clause of the handlers catches
Fatal(outcome) == outcome = "conn"

\* a remote mutation call, as the history keeps it: the ids it carries (for
\* addNotes the ids it returned), whether it succeeded in full, its answer
Call(op, ids, ok, resp) == [op |-> op, ids |-> ids, ok |-> ok, resp |-> resp]

(***************************************************************************)
(* PushHandler (handlers/push_handler.py).                                 *)
(***************************************************************************)
Keys(ts) == {SourceId(ts[i]) : i \in DOMAIN ts}

\* _validate_no_collisions raises
HasCollision(ts) ==
    \E i, j \in DOMAIN ts : i < j /\ SourceId(ts[i]) = SourceId(ts[j])

\* _compute_diff: the three classes
IsNew(t, st) == ~HasMapping(st, SourceId(t))

\* a diff for which every mapped entry is an updated one
IsUpdatedWhenMapped(t, st, hp) == HasMapping(st, SourceId(t))

IsUpdated(t, st, hp) ==
    /\ HasMapping(st, SourceId(t))
    /\ ContentHash(t) # hp[st.table[SourceId(t)]].last_push_hash

\* a diff that takes every entry of the source for a new one
DiffNewWhateverMapped(ts, st) == ts

DiffNew(ts, st) == SelectSeq(ts, LAMBDA t : IsNew(t, st))

DiffUpdated(ts, st, hp) ==
    LET upd == SelectSeq(ts, LAMBDA t : IsUpdated(t, st, hp))
    IN  [i \in DOMAIN upd |-> [trans |-> upd[i], obj |-> st.table[SourceId(upd[i])]]]

DiffDeleted(ts, st) == {k \in DOMAIN st.table : k \notin Keys(ts)}

\* execute, lines 60-75: the phase that runs after `phase`
PhaseAfter(phase, new, upd, del) ==
    IF phase = "start" /\ new # <<>> THEN "push_create"
    ELSE IF phase \in {"start", "create"} /\ upd # <<>> THEN "push_update"
    ELSE IF phase \in {"start", "create", "update"} /\ del # {} THEN "push_delete"
    ELSE "push_stamp"

NoCounts == [success |-> 0, fail |-> 0]

\* a new mapping whose fingerprint is not the entry's
NewMappingBlankHash(t) ==
    CardMapping(SourceId(t), NoId, NoId,
                ContentHash(Translation(Empty, Empty, Empty, Empty, <<>>)), 0)

\* the CardMapping _create_new_cards makes on an entry's first created card
NewMapping(t) == CardMapping(SourceId(t), NoId, NoId, ContentHash(t), 0)

\* a loop turn that, on a failure marker, also gives up the entry's mapping
CreateStepPairOrNothing(acc, entries, resp, i) ==
    LET t == entries[EntryOf(i)]
        k == SourceId(t)
        st1 == IF HasMapping(acc.state, k) THEN acc.state
               ELSE [acc.state EXCEPT !.table = Put(@, k, Created(k))]
        hp1 == IF HasMapping(acc.state, k) THEN acc.heap
               ELSE Put(acc.heap, Created(k), NewMapping(t))
        o == st1.table[k]
    IN  IF resp[i] = NoId
        THEN [state |-> [acc.state EXCEPT !.table = Drop(@, k)],
              heap |-> acc.heap,
              counts |-> [acc.counts EXCEPT !.fail = @ + 1]]
        ELSE [state |-> st1,
              heap |-> IF DirectionOf(i) = "es_en"
                       THEN [hp1 EXCEPT ![o].es_en_note_id = resp[i]]
                       ELSE [hp1 EXCEPT ![o].en_es_note_id = resp[i]],
              counts |-> [acc.counts EXCEPT !.success = @ + 1]]

\* a loop that makes the entry's mapping before it looks at the answer
CreateStepMappingFirst(acc, entries, resp, i) ==
    LET t == entries[EntryOf(i)]
        k == SourceId(t)
        st1 == IF HasMapping(acc.state, k) THEN acc.state
               ELSE [acc.state EXCEPT !.table = Put(@, k, Created(k))]
        hp1 == IF HasMapping(acc.state, k) THEN acc.heap
               ELSE Put(acc.heap, Created(k), NewMapping(t))
        o == st1.table[k]
    IN  IF resp[i] = NoId
        THEN [state |-> st1, heap |-> hp1,
              counts |-> [acc.counts EXCEPT !.fail = @ + 1]]
        ELSE [state |-> st1,
              heap |-> IF DirectionOf(i) = "es_en"
                       THEN [hp1 EXCEPT ![o].es_en_note_id = resp[i]]
                       ELSE [hp1 EXCEPT ![o].en_es_note_id = resp[i]],
              counts |-> [acc.counts EXCEPT !.success = @ + 1]]

\* _create_new_cards, lines 215-245: one turn of the loop over note_ids
CreateStep(acc, entries, resp, i) ==
    LET t == entries[EntryOf(i)]
        k == SourceId(t)
        st1 == IF HasMapping(acc.state, k) THEN acc.state
               ELSE [acc.state EXCEPT !.table = Put(@, k, Created(k))]
        hp1 == IF HasMapping(acc.state, k) THEN acc.heap
               ELSE Put(acc.heap, Created(k), NewMapping(t))
        o == st1.table[k]
    IN  IF resp[i] = NoId
        THEN [acc EXCEPT !.counts.fail = @ + 1]
        ELSE [state |-> st1,
              heap |-> IF DirectionOf(i) = "es_en"
                       THEN [hp1 EXCEPT ![o].es_en_note_id = resp[i]]
                       ELSE [hp1 EXCEPT ![o].en_es_note_id = resp[i]],
              counts |-> [acc.counts EXCEPT !.success = @ + 1]]

RECURSIVE CreateLoop(_, _, _, _)
CreateLoop(acc, entries, resp, i) ==
    IF i > Len(resp) THEN acc
    ELSE CreateLoop(CreateStep(acc, entries, resp, i), entries, resp, i + 1)

\* a gathering that takes only the first card of each pair
IdsToDeleteFirstOnly(st, hp, del) ==
    {n \in {hp[st.table[k]].es_en_note_id : k \in del \cap DOMAIN st.table} : n # NoId}

\* the ids _delete_cards gathers, lines 318-325
IdsToDelete(st, hp, del) ==
    {n \in UNION {{hp[st.table[k]].es_en_note_id, hp[st.table[k]].en_es_note_id} :
                    k \in del \cap DOMAIN st.table} : n # NoId}

\* _delete_cards, lines 333-335: the mappings of the deleted entries removed
RemoveMappings(st, del) ==
    [st EXCEPT !.table = [k \in DOMAIN @ \ del |-> @[k]]]

\* a delete phase that removes the mappings whatever the call's outcome
DeleteResultRegardless(st, del, outcome) ==
    IF outcome = "none" THEN st ELSE [st EXCEPT !.table = [k \in DOMAIN @ \ del |-> @[k]]]

\* _delete_cards, lines 327-338: the mappings go when the call succeeded
DeleteResult(st, del, outcome) ==
    IF outcome = "ok" THEN RemoveMappings(st, del) ELSE st

NoFiles == [source |-> <<>>, state |-> NoStateFile]

\* no temporary file beside either file
NoTemp(doc) == [exists |-> FALSE, doc |-> doc]

NoTemps == [source |-> NoTemp(<<>>), state |-> NoTemp(NoStateFile)]

\* the configured deck and note type, and the fields SetupHandler gives it
DeckName == "deck"
ModelName == "model"
ModelFields == <<"Front", "Back", "Example", "Notes">>

\* the note types of a remote on which setup has run
SetUpModels == [m \in {ModelName} |-> ModelFields]

\* the run's variables outside a run
Idle ==
    /\ pc = "idle" /\ dryRun = FALSE /\ translations = <<>>
    /\ state = LoadState(NoStateFile) /\ heap = LoadHeap(NoStateFile)
    /\ newEntries = <<>> /\ updatedEntries = <<>> /\ deletedIds = {}
    /\ modifiedNotes = <<>> /\ transById = NoMappings /\ idx = 0 /\ kind = ""
    /\ error = "" /\ calls = <<>> /\ counts = NoCounts
    /\ file0 = NoFiles /\ saves = <<>> /\ remaps = <<>> /\ remoteErrors = {}

\* the run ends by raising exc
Raise(exc) == pc' = "end" /\ error' = exc

\* an attempt to write a file, as the history keeps it
Write(file, ok) == [file |-> file, ok |-> ok]

\* 1 for an injected failure
Fault(failed) == IF failed THEN 1 ELSE 0

\* a save that goes on to the next phase without writing the file
SaveStateDeferred(st, hp, ok, next) ==
    /\ stateFile' = stateFile
    /\ saves' = Append(saves, Write("state", ok))
    /\ pc' = IF ok THEN next ELSE "end"
    /\ error' = IF ok THEN "" ELSE "OSError"

\* SyncState.save of (st, hp): it writes the file, or it raises and the run ends
SaveState(st, hp, ok, next) ==
    /\ stateFile' = IF ok THEN DumpState(st, hp) ELSE stateFile
    /\ saves' = Append(saves, Write("state", ok))
    /\ pc' = IF ok THEN next ELSE "end"
    /\ error' = IF ok THEN "" ELSE "OSError"

\* a Push that applies its diff in dry-run mode too
PushAppliesDespiteDryRun(dry, collided, new, upd, del) ==
    ~collided /\ ~(new = <<>> /\ upd = <<>> /\ del = {})

\* a Push that goes on to the timestamp with nothing to apply
PushAppliesOnEmptyDiff(dry, collided, new, upd, del) == ~collided /\ ~dry

\* execute, lines 43-58: the run goes on to apply changes
PushApplies(dry, collided, new, upd, del) ==
    ~collided /\ ~dry /\ ~(new = <<>> /\ upd = <<>> /\ del = {})

\* execute, lines 41-58: load, validate, diff, and the two early returns
PushStart(dry) ==
    /\ UNCHANGED <<sideVars, remoteErrors>>
    /\ pc = "idle" /\ runs < MaxRuns
    /\ kind' = "push" /\ dryRun' = dry
    /\ file0' = [source |-> sourceFile, state |-> stateFile]
    /\ LET ts == LoadTranslations(sourceFile)
           st == LoadState(stateFile)
           hp == LoadHeap(stateFile)
           new == DiffNew(ts, st)
           upd == DiffUpdated(ts, st, hp)
           del == DiffDeleted(ts, st)
           applies == PushApplies(dry, HasCollision(ts), new, upd, del)
       IN  /\ applies => runs < MaxRuns
           /\ runs' = runs + Fault(applies)
           /\ now' = now + Fault(applies)
           /\ translations' = ts
           /\ IF HasCollision(ts)
              THEN /\ Raise("ValidationError")
                   /\ UNCHANGED <<state, heap, newEntries, updatedEntries, deletedIds>>
              ELSE /\ state' = st /\ heap' = hp
                   /\ newEntries' = new /\ updatedEntries' = upd /\ deletedIds' = del
                   /\ error' = ""
                   /\ pc' = IF applies THEN PhaseAfter("start", new, upd, del) ELSE "end"
    /\ idx' = 1
    /\ UNCHANGED <<diskVars, remoteVars, modifiedNotes, transById, calls,
                   counts, saves, remaps, histVars, events>>

\* execute, lines 61-63: _create_new_cards and the save after it.  The remote
\* answers addNotes with a connection error, an API error or one id-or-null
\* per request
PushCreate(outcome, failed, saveOk) ==
    /\ UNCHANGED sideVars
    /\ remoteErrors' = IF outcome = "conn"
                       THEN remoteErrors \cup {RemoteError("addNotes", outcome, NoId)}
                       ELSE remoteErrors
    /\ pc = "push_create"
    /\ LET reqs == BuildNotes(newEntries)
           resp == AddNotesResult(nextId, Len(reqs), failed)
           made == Len(reqs) - Cardinality(failed)
           done == CreateLoop([state |-> state, heap |-> heap, counts |-> NoCounts],
                              newEntries, resp, 1)
           next == PhaseAfter("create", newEntries, updatedEntries, deletedIds)
           nf == Fault(outcome # "ok") + Cardinality(failed) + Fault(~saveOk)
       IN  /\ outcome \in {"ok", "api", "conn"}
           /\ failed \subseteq DOMAIN reqs
           /\ outcome = "conn" => saveOk
           /\ outcome # "ok" => failed = {}
           /\ events + nf <= MaxEvents
           /\ events' = events + nf
           /\ calls' = Append(calls, Call("addNotes",
                                          IF outcome = "ok"
                                          THEN {resp[i] : i \in DOMAIN resp} \ {NoId}
                                          ELSE {},
                                          outcome = "ok" /\ failed = {},
                                          IF outcome = "ok" THEN resp ELSE <<>>))
           /\ CASE Fatal(outcome) ->
                    /\ Raise("AnkiConnectionError")
                    /\ UNCHANGED <<state, heap, counts, notes, nextId, stateFile, saves>>
                [] ~Fatal(outcome) /\ outcome # "ok" ->
                    /\ SaveState(state, heap, saveOk, next)
                    /\ UNCHANGED <<state, heap, counts, notes, nextId>>
                [] ~Fatal(outcome) /\ outcome = "ok" ->
                    /\ notes' = AddNotes(notes, reqs, resp, now)
                    /\ nextId' = nextId + made
                    /\ state' = done.state /\ heap' = done.heap
                    /\ counts' = done.counts
                    /\ SaveState(done.state, done.heap, saveOk, next)
    /\ UNCHANGED <<sourceFile, now, dryRun, translations, newEntries, updatedEntries,
                   deletedIds, modifiedNotes, transById, idx, kind, file0, remaps,
                   histVars, runs>>

\* whether the remote holds the note
Exists(n) == n \in DOMAIN notes

\* the outcomes the remote can give a field update of note n: none when the
\* call is not issued, an API error always, success when the note exists
UpdateOutcomes(n, issued) ==
    IF ~issued THEN {"none"}
    ELSE {"api", "conn"} \cup (IF Exists(n) THEN {"ok"} ELSE {})

\* an outcome that is an injected failure (an API error on a missing note is
\* the remote's regular answer)
Injected(n, o) == o = "conn" \/ (o = "api" /\ Exists(n))

\* a hash that follows the entry whatever the calls answered
AdvanceHashRegardless(hp, o, t, successes) ==
    [hp EXCEPT ![o].last_push_hash = ContentHash(t)]

\* _update_cards, lines 296-298: the hash follows the entry when a card updated
AdvanceHash(hp, o, t, successes) ==
    IF successes > 0 THEN [hp EXCEPT ![o].last_push_hash = ContentHash(t)] ELSE hp

\* execute, lines 65-67: one turn of the loop of _update_cards, lines 268-298,
\* and after the last turn the save
PushUpdate(o1, o2, saveOk) ==
    /\ UNCHANGED sideVars
    /\ remoteErrors' = IF o1 = "conn" \/ o2 = "conn"
                       THEN remoteErrors \cup {RemoteError("updateNoteFields", "conn", NoId)}
                       ELSE remoteErrors
    /\ pc = "push_update"
    /\ LET e == updatedEntries[idx]
           m == heap[e.obj]
           n1 == m.es_en_note_id
           n2 == m.en_es_note_id
           aborted == Fatal(o1) \/ Fatal(o2)
           last == idx = Len(updatedEntries)
           successes == Fault(o1 = "ok") + Fault(o2 = "ok")
           failures == Fault(o1 = "api") + Fault(o2 = "api")
           base == IF idx = 1 THEN NoCounts ELSE counts
           ns1 == IF o1 = "ok"
                  THEN UpdateNoteFields(notes, n1, BuildFields(e.trans, "es_en"), now)
                  ELSE notes
           ns2 == IF o2 = "ok"
                  THEN UpdateNoteFields(ns1, n2, BuildFields(e.trans, "en_es"), now)
                  ELSE ns1
           hp == IF aborted THEN heap ELSE AdvanceHash(heap, e.obj, e.trans, successes)
           nf == Fault(Injected(n1, o1)) + Fault(Injected(n2, o2)) + Fault(~saveOk)
           c1 == IF o1 = "none" THEN <<>> ELSE <<Call("updateNoteFields", {n1}, o1 = "ok", <<>>)>>
           c2 == IF o2 = "none" THEN <<>> ELSE <<Call("updateNoteFields", {n2}, o2 = "ok", <<>>)>>
       IN  /\ o1 \in UpdateOutcomes(n1, n1 # NoId)
           /\ o2 \in UpdateOutcomes(n2, n2 # NoId /\ o1 # "conn")
           /\ saveOk \/ (last /\ ~aborted)
           /\ events + nf <= MaxEvents
           /\ events' = events + nf
           /\ notes' = ns2
           /\ heap' = hp
           /\ calls' = calls \o c1 \o c2
           /\ counts' = [success |-> base.success + successes,
                         fail |-> base.fail + failures]
           /\ IF aborted
              THEN Raise("AnkiConnectionError") /\ UNCHANGED <<stateFile, saves, idx>>
              ELSE IF last
              THEN /\ SaveState(state, hp, saveOk,
                                PhaseAfter("update", newEntries, updatedEntries, deletedIds))
                   /\ UNCHANGED idx
              ELSE /\ idx' = idx + 1
                   /\ UNCHANGED <<pc, error, stateFile, saves>>
    /\ UNCHANGED <<sourceFile, nextId, now, dryRun, translations, state, newEntries,
                   updatedEntries, deletedIds, modifiedNotes, transById, kind,
                   file0, remaps, histVars, runs>>

\* execute, lines 69-71: _delete_cards and the save after it
PushDelete(outcome, saveOk) ==
    /\ UNCHANGED sideVars
    /\ remoteErrors' = IF outcome = "conn"
                       THEN remoteErrors \cup {RemoteError("deleteNotes", outcome, NoId)}
                       ELSE remoteErrors
    /\ pc = "push_delete"
    /\ LET ids == IdsToDelete(state, heap, deletedIds)
           st == DeleteResult(state, deletedIds, outcome)
           nf == Fault(outcome \in {"api", "conn"}) + Fault(~saveOk)
       IN  /\ outcome \in (IF ids = {} THEN {"none"} ELSE {"ok", "api", "conn"})
           /\ outcome = "conn" => saveOk
           /\ events + nf <= MaxEvents
           /\ events' = events + nf
           /\ calls' = IF outcome = "none" THEN calls
                       ELSE Append(calls, Call("deleteNotes", ids, outcome = "ok", <<>>))
           /\ notes' = IF outcome = "ok" THEN DeleteNotes(notes, ids) ELSE notes
           /\ state' = st
           /\ IF Fatal(outcome)
              THEN Raise("AnkiConnectionError") /\ UNCHANGED <<stateFile, saves>>
              ELSE SaveState(st, heap, saveOk, "push_stamp")
    /\ UNCHANGED <<sourceFile, nextId, now, dryRun, translations, heap, newEntries,
                   updatedEntries, deletedIds, modifiedNotes, transById, idx, kind,
                   counts, file0, remaps, histVars, runs>>

\* SyncState.update_push_timestamp
UpdatePushTimestamp(st, t) == [st EXCEPT !.last_push = t]

\* execute, lines 77-83: what follows the last save
PushPhaseAfterStamp(autoSync) == IF autoSync THEN "push_sync" ELSE "end"

\* execute, lines 73-78: the timestamp and the last save; autoSync is
\* config.auto_sync_ankiweb, read at line 78
PushStamp(saveOk, autoSync) ==
    /\ UNCHANGED <<sideVars, remoteErrors>>
    /\ pc = "push_stamp"
    /\ events + Fault(~saveOk) <= MaxEvents
    /\ events' = events + Fault(~saveOk)
    /\ state' = UpdatePushTimestamp(state, now)
    /\ SaveState(state', heap, saveOk, PushPhaseAfterStamp(autoSync))
    /\ UNCHANGED <<sourceFile, remoteVars, now, dryRun, translations, heap, newEntries,
                   updatedEntries, deletedIds, modifiedNotes, transById, idx, kind,
                   calls, counts, file0, remaps, histVars, runs>>

\* execute, lines 78-83: the remote's own sync; its failure leaves execute
PushSync(outcome) ==
    /\ UNCHANGED sideVars
    /\ remoteErrors' = IF outcome = "conn"
                       THEN remoteErrors \cup {RemoteError("sync", outcome, NoId)}
                       ELSE remoteErrors
    /\ pc = "push_sync"
    /\ outcome \in {"ok", "api", "conn"}
    /\ events + Fault(outcome # "ok") <= MaxEvents
    /\ events' = events + Fault(outcome # "ok")
    /\ calls' = Append(calls, Call("sync", {}, outcome = "ok", <<>>))
    /\ IF Fatal(outcome) THEN Raise("AnkiConnectionError")
       ELSE IF outcome = "ok" THEN pc' = "end" /\ error' = ""
       ELSE Raise("AnkiAPIError")
    /\ UNCHANGED <<diskVars, remoteVars, now, dryRun, translations, state, heap,
                   newEntries, updatedEntries, deletedIds, modifiedNotes, transById,
                   idx, kind, counts, file0, saves, remaps, histVars, runs>>

(***************************************************************************)
(* PullHandler (handlers/pull_handler.py).                                 *)
(***************************************************************************)
RECURSIVE Ascending(_)
\* the ids of a set in ascending order: the order findNotes lists them in
Ascending(S) ==
    IF S = {} THEN <<>>
    ELSE LET m == CHOOSE x \in S : \A y \in S : x <= y
         IN  <<m>> \o Ascending(S \ {m})

\* cardsInfo of the cards of note n: the largest modification time
CardsMaxMod(ns, n) == ns[n].mod

\* _detect_modified_notes: the notes a mapping owns whose cards changed after
\* the mapping's last_pull_mod; `skipped` are the notes whose cardsInfo failed
IsModified(st, hp, ns, n) ==
    /\ OwnersOf(st, hp, n) # {}
    /\ CardsMaxMod(ns, n) > hp[CHOOSE o \in OwnersOf(st, hp, n) : TRUE].last_pull_mod

DetectModifiedNotes(st, hp, ns, skipped) ==
    LET ids == Ascending({n \in DOMAIN ns \ skipped : IsModified(st, hp, ns, n)})
    IN  [i \in DOMAIN ids |->
            [noteId |-> ids[i], mod |-> CardsMaxMod(ns, ids[i]),
             fields |-> Note(ns[ids[i]].front, ns[ids[i]].back,
                             ns[ids[i]].example, ns[ids[i]].notes),
             obj |-> CHOOSE o \in OwnersOf(st, hp, ids[i]) : TRUE]]

\* execute, line 75: trans_by_id, where a later entry replaces an earlier one
\* of the same key
IndexById(ts) ==
    [k \in Keys(ts) |-> CHOOSE i \in DOMAIN ts :
        SourceId(ts[i]) = k /\ \A j \in DOMAIN ts : SourceId(ts[j]) = k => j <= i]

\* a merge that takes whatever differs, an empty remote field included
OverwritesWhenDifferent(remote, current) == remote # current

\* _update_translation: a remote field replaces the entry's when it is not
\* empty and differs
Overwrites(remote, current) == remote # Empty /\ remote # current

Merge(remote, current) == IF Overwrites(remote, current) THEN remote ELSE current

\* a merge that reads the sides of an English-first note as those of a
\* Spanish-first one
UpdateTranslationOneWay(t, note, m) ==
    LET f == note.fields
        owned == note.noteId = m.es_en_note_id \/ note.noteId = m.en_es_note_id
        sp == IF owned THEN Merge(f.front, t.spanish) ELSE t.spanish
        en == IF owned THEN Merge(f.back, t.english) ELSE t.english
    IN  Translation(sp, en, Merge(f.example, t.example), Merge(f.notes, t.notes), t.tags)

\* _update_translation, lines 199-249: the translation after the note's
\* fields are applied
UpdateTranslation(t, note, m) ==
    LET f == note.fields
        sp == IF note.noteId = m.es_en_note_id THEN Merge(f.front, t.spanish)
              ELSE IF note.noteId = m.en_es_note_id THEN Merge(f.back, t.spanish)
              ELSE t.spanish
        en == IF note.noteId = m.es_en_note_id THEN Merge(f.back, t.english)
              ELSE IF note.noteId = m.en_es_note_id THEN Merge(f.front, t.english)
              ELSE t.english
    IN  Translation(sp, en, Merge(f.example, t.example), Merge(f.notes, t.notes), t.tags)

\* a record for the new key that keeps the old key in its own field
RemappedMappingOldKey(t, m) ==
    CardMapping(m.source_id, m.es_en_note_id, m.en_es_note_id, ContentHash(t),
                m.last_pull_mod)

\* _update_translation, lines 257-263: the mapping made for the new key
RemappedMapping(t, m) ==
    CardMapping(SourceId(t), m.es_en_note_id, m.en_es_note_id, ContentHash(t),
                m.last_pull_mod)

\* a remap that inserts the record of the new key and leaves the old one
RemapKeepingOld(st, hp, t, o) ==
    IF SourceId(t) # hp[o].source_id
    THEN [state |-> [st EXCEPT !.table = Put(@, SourceId(t), Created(SourceId(t)))],
          heap |-> Put(hp, Created(SourceId(t)), RemappedMapping(t, hp[o]))]
    ELSE [state |-> st, heap |-> hp]

\* _update_translation, lines 251-267: the table and the objects after the
\* key of mapping object o follows the translation
Remap(st, hp, t, o) ==
    IF SourceId(t) # hp[o].source_id
    THEN [state |-> [st EXCEPT !.table =
                        Put(Drop(@, hp[o].source_id), SourceId(t), Created(SourceId(t)))],
          heap |-> Put(hp, Created(SourceId(t)), RemappedMapping(t, hp[o]))]
    ELSE [state |-> st, heap |-> hp]

\* execute, lines 87-89: the object held by the loop gets the note's mod
AdvancePullMod(hp, o, mod, modified) ==
    IF modified THEN [hp EXCEPT ![o].last_pull_mod = mod] ELSE hp

\* execute, lines 91-95: the lookup dictionary follows the translation
Reindex(byId, old, new, i) ==
    IF new # old /\ old \in DOMAIN byId THEN Put(Drop(byId, old), new, i) ELSE byId

\* an order of the two saves with the state first
PullPhaseAfterStateFirst(phase) ==
    IF phase = "pull_apply" THEN "pull_state"
    ELSE IF phase = "pull_state" THEN "pull_save"
    ELSE "end"

\* execute, lines 101-114: the translations are saved first, then the state
PullPhaseAfter(phase) ==
    IF phase = "pull_apply" THEN "pull_save"
    ELSE IF phase = "pull_save" THEN "pull_state"
    ELSE "end"

\* a Pull that applies the modified notes in dry-run mode too
PullAppliesDespiteDryRun(dry, outcome, mod) == outcome = "ok" /\ mod # <<>>

\* execute, lines 46-71: the run goes on to apply the modified notes
PullApplies(dry, outcome, mod) == outcome = "ok" /\ ~dry /\ mod # <<>>

\* execute, lines 37-75: load the state, query the remote, detect the
\* modified notes, and the early returns
PullStart(dry, outcome, skipped) ==
    /\ UNCHANGED sideVars
    /\ pc = "idle" /\ runs < MaxRuns
    /\ outcome \in {"ok", "api", "conn"}
    /\ outcome # "ok" => skipped = {} /\ ~dry
    /\ skipped # {} => ~dry
    /\ events + Cardinality(skipped) <= MaxEvents
    /\ events' = events + Cardinality(skipped)
    /\ kind' = "pull" /\ dryRun' = dry
    /\ file0' = [source |-> sourceFile, state |-> stateFile]
    /\ LET st == LoadState(stateFile)
           hp == LoadHeap(stateFile)
           mod == DetectModifiedNotes(st, hp, notes, skipped)
           ts == LoadTranslations(sourceFile)
           applies == PullApplies(dry, outcome, mod)
       IN  /\ skipped \subseteq {n \in DOMAIN notes : OwnersOf(st, hp, n) # {}}
           /\ runs' = runs + Fault(applies)
           /\ now' = now + Fault(applies)
           /\ state' = st /\ heap' = hp
           /\ error' = IF Fatal(outcome) THEN "AnkiConnectionError" ELSE ""
           /\ modifiedNotes' = IF outcome = "ok" THEN mod ELSE <<>>
           /\ IF applies
              THEN /\ translations' = ts
                   /\ transById' = IndexById(ts)
                   /\ pc' = "pull_apply"
              ELSE /\ pc' = "end"
                   /\ UNCHANGED <<translations, transById>>
    /\ idx' = 1
    /\ prevPush' = ""
    /\ remoteErrors' = (IF outcome = "ok" THEN {}
                        ELSE {RemoteError("query", outcome, NoId)})
                       \cup {RemoteError("cardsInfo", "api", n) : n \in skipped}
    /\ UNCHANGED <<diskVars, remoteVars, newEntries, updatedEntries, deletedIds,
                   calls, counts, saves, remaps, dirty, touched>>

\* execute, lines 79-99: one turn of the loop over modified_notes
PullApply ==
    /\ UNCHANGED <<sideVars, remoteErrors>>
    /\ pc = "pull_apply"
    /\ LET note == modifiedNotes[idx]
           o == note.obj
           cur == heap[o].source_id
           found == cur \in DOMAIN transById
           i == transById[cur]
           old == SourceId(translations[i])
           t == UpdateTranslation(translations[i], note, heap[o])
           modified == t # translations[i]
           re == Remap(state, heap, t, o)
       IN  /\ IF found
              THEN /\ translations' = [translations EXCEPT ![i] = t]
                   /\ state' = re.state
                   /\ heap' = AdvancePullMod(re.heap, o, note.mod, modified)
                   /\ transById' = Reindex(transById, old, SourceId(t), i)
                   /\ remaps' = IF SourceId(t) # cur
                                THEN Append(remaps,
                                        [old |-> cur, new |-> SourceId(t), entry |-> i,
                                         value |-> t.spanish, mod |-> note.mod,
                                         es_en |-> heap[o].es_en_note_id,
                                         en_es |-> heap[o].en_es_note_id])
                                ELSE remaps
              ELSE UNCHANGED <<translations, state, heap, transById, remaps>>
           /\ counts' = IF found /\ modified
                        THEN [counts EXCEPT !.success = @ + 1] ELSE counts
    /\ idx' = idx + 1
    /\ pc' = IF idx = Len(modifiedNotes) THEN PullPhaseAfter("pull_apply") ELSE "pull_apply"
    /\ UNCHANGED <<diskVars, remoteVars, now, dryRun, newEntries, updatedEntries,
                   deletedIds, modifiedNotes, kind, error, calls, file0, saves,
                   histVars, runs, events>>

\* a save of the translations whose failure is logged and not raised
PullSaveTranslationsSwallowing(ok) ==
    /\ UNCHANGED <<sideVars, remoteErrors>>
    /\ pc = "pull_save"
    /\ events + Fault(~ok) <= MaxEvents
    /\ events' = events + Fault(~ok)
    /\ sourceFile' = IF ok THEN DumpTranslations(translations) ELSE sourceFile
    /\ saves' = Append(saves, Write("source", ok))
    /\ pc' = PullPhaseAfter("pull_save")
    /\ error' = ""
    /\ UNCHANGED <<stateFile, remoteVars, now, dryRun, translations, state, heap,
                   newEntries, updatedEntries, deletedIds, modifiedNotes, transById,
                   idx, kind, calls, counts, file0, remaps, histVars, runs>>

\* execute, lines 101-108: save_translations; a failure is raised again
PullSaveTranslations(ok) ==
    /\ UNCHANGED <<sideVars, remoteErrors>>
    /\ pc = "pull_save"
    /\ events + Fault(~ok) <= MaxEvents
    /\ events' = events + Fault(~ok)
    /\ sourceFile' = IF ok THEN DumpTranslations(translations) ELSE sourceFile
    /\ saves' = Append(saves, Write("source", ok))
    /\ pc' = IF ok THEN PullPhaseAfter("pull_save") ELSE "end"
    /\ error' = IF ok THEN "" ELSE "ValidationError"
    /\ UNCHANGED <<stateFile, remoteVars, now, dryRun, translations, state, heap,
                   newEntries, updatedEntries, deletedIds, modifiedNotes, transById,
                   idx, kind, calls, counts, file0, remaps, histVars, runs>>

\* SyncState.update_pull_timestamp
UpdatePullTimestamp(st, t) == [st EXCEPT !.last_pull = t]

\* execute, lines 110-114: the timestamp and the save of the state
PullSaveState(ok) ==
    /\ UNCHANGED <<sideVars, remoteErrors>>
    /\ pc = "pull_state"
    /\ events + Fault(~ok) <= MaxEvents
    /\ events' = events + Fault(~ok)
    /\ state' = UpdatePullTimestamp(state, now)
    /\ SaveState(state', heap, ok, PullPhaseAfter("pull_state"))
    /\ UNCHANGED <<sourceFile, remoteVars, now, dryRun, translations, heap, newEntries,
                   updatedEntries, deletedIds, modifiedNotes, transById, idx, kind,
                   calls, counts, file0, remaps, histVars, runs>>

(***************************************************************************)
(* The end of a run, the human editor and the remote user.                 *)
(***************************************************************************)
\* how a Push that has ended is remembered
PushVerdict ==
    IF error # "" THEN "raised"
    ELSE IF \A i \in DOMAIN calls : calls[i].ok THEN "clean"
    ELSE "partial"

\* the run returns (or its exception leaves execute)
Finish ==
    /\ UNCHANGED sideVars
    /\ pc = "end"
    /\ pc' = "idle" /\ dryRun' = FALSE /\ translations' = <<>>
    /\ state' = LoadState(NoStateFile) /\ heap' = LoadHeap(NoStateFile)
    /\ newEntries' = <<>> /\ updatedEntries' = <<>> /\ deletedIds' = {}
    /\ modifiedNotes' = <<>> /\ transById' = NoMappings /\ idx' = 0 /\ kind' = ""
    /\ error' = "" /\ calls' = <<>> /\ counts' = NoCounts
    /\ file0' = NoFiles /\ saves' = <<>> /\ remaps' = <<>> /\ remoteErrors' = {}
    /\ prevPush' = IF kind = "push" /\ ~dryRun THEN PushVerdict ELSE prevPush
    /\ dirty' = IF kind = "push" /\ ~dryRun THEN {} ELSE dirty
    /\ touched' = IF kind = "push" /\ ~dryRun THEN {} ELSE touched
    /\ UNCHANGED <<diskVars, remoteVars, now, runs, events>>

SpanishTexts == {<<"a">>, <<"A", " ">>, <<"b">>}
EnglishTexts == {<<"x">>, <<"y">>}
ExampleTexts == {Empty, <<"e", "e", "e">>}
NotesTexts == {Empty, <<"n">>}
TagLists == {<<>>, <<2, 1>>}

ValuesOf(f) ==
    CASE f = "spanish" -> SpanishTexts
      [] f = "english" -> EnglishTexts
      [] f = "example" -> ExampleTexts
      [] f = "notes" -> NotesTexts
      [] f = "tags" -> TagLists

\* the values the remote user types into a field of a note
RemoteFields == {"front", "back", "example", "notes"}

RemoteValuesOf(f) ==
    CASE f \in {"front", "back"} -> {Empty, <<"a">>, <<"b">>}
      [] f = "example" -> {Empty, <<"e">>}
      [] f = "notes" -> {Empty, <<"n">>}

InitialSources ==
    {<<Translation(<<"a">>, <<"x">>, Empty, Empty, <<>>)>>,
     <<Translation(<<"a">>, <<"x">>, Empty, Empty, <<>>),
       Translation(<<"b">>, <<"y">>, Empty, Empty, <<>>)>>}

\* the editor changes one field of one entry of the source file
EditField(i, f, v) ==
    /\ UNCHANGED sideVars
    /\ pc = "idle" /\ events < MaxEvents /\ runs < MaxRuns
    /\ i \in DOMAIN sourceFile /\ v \in ValuesOf(f) /\ sourceFile[i][f] # v
    /\ events' = events + 1
    /\ sourceFile' = [sourceFile EXCEPT ![i][f] = v]
    /\ dirty' = dirty \cup {<<SourceId(sourceFile'[i]), f>>}
    /\ prevPush' = ""
    /\ UNCHANGED <<stateFile, remoteVars, now, runVars, touched, runs>>

\* the editor appends an entry
AddEntry(t) ==
    /\ UNCHANGED sideVars
    /\ pc = "idle" /\ events < MaxEvents /\ runs < MaxRuns
    /\ Len(sourceFile) < MaxEntries
    /\ events' = events + 1
    /\ sourceFile' = Append(sourceFile, ToDict(t))
    /\ dirty' = dirty \cup {<<SourceId(t), f>> : f \in Fields}
    /\ prevPush' = ""
    /\ UNCHANGED <<stateFile, remoteVars, now, runVars, touched, runs>>

\* the editor removes an entry
DeleteEntry(i) ==
    /\ UNCHANGED sideVars
    /\ pc = "idle" /\ events < MaxEvents /\ runs < MaxRuns
    /\ i \in DOMAIN sourceFile
    /\ events' = events + 1
    /\ sourceFile' = [j \in 1..(Len(sourceFile) - 1) |->
                        IF j < i THEN sourceFile[j] ELSE sourceFile[j + 1]]
    /\ prevPush' = ""
    /\ UNCHANGED <<stateFile, remoteVars, now, runVars, dirty, touched, runs>>

\* the remote user edits one field of a note; its cards' mod moves on
RemoteEdit(n, f, v) ==
    /\ UNCHANGED sideVars
    /\ pc = "idle" /\ events < MaxEvents /\ runs < MaxRuns
    /\ n \in DOMAIN notes /\ v \in RemoteValuesOf(f) /\ notes[n][f] # v
    /\ events' = events + 1
    /\ now' = now + 1
    /\ notes' = [notes EXCEPT ![n][f] = v, ![n].mod = now']
    /\ touched' = touched \cup {n}
    /\ UNCHANGED <<diskVars, nextId, runVars, prevPush, dirty, runs>>

(***************************************************************************)
(* The specification.                                                      *)
(***************************************************************************)
Init ==
    /\ sourceFile \in InitialSources
    /\ stateFile = NoStateFile
    /\ notes = NoNotes /\ nextId = 1 /\ now = 1
    /\ Idle
    /\ prevPush = "" /\ dirty = {} /\ touched = {}
    /\ temps = NoTemps /\ decks = {DeckName} /\ models = SetUpModels
    /\ runs = 0 /\ events = 0

Next ==
    \/ \E dry \in BOOLEAN : PushStart(dry)
    \/ \E o \in Outcomes, failed \in SUBSET (1..(2 * MaxEntries)), ok \in BOOLEAN :
          PushCreate(o, failed, ok)
    \/ \E o1, o2 \in Outcomes, ok \in BOOLEAN : PushUpdate(o1, o2, ok)
    \/ \E o \in Outcomes, ok \in BOOLEAN : PushDelete(o, ok)
    \/ \E ok, auto \in BOOLEAN : PushStamp(ok, auto)
    \/ \E o \in Outcomes : PushSync(o)
    \/ \E dry \in BOOLEAN, o \in Outcomes, skipped \in SUBSET (DOMAIN notes) :
          PullStart(dry, o, skipped)
    \/ PullApply
    \/ \E ok \in BOOLEAN : PullSaveTranslations(ok)
    \/ \E ok \in BOOLEAN : PullSaveState(ok)
    \/ Finish
    \/ \E i \in 1..MaxEntries, f \in Fields : \E v \in ValuesOf(f) : EditField(i, f, v)
    \/ \E sp \in SpanishTexts : AddEntry(Translation(sp, <<"x">>, Empty, Empty, <<>>))
    \/ \E i \in 1..MaxEntries : DeleteEntry(i)
    \/ \E n \in DOMAIN notes, f \in RemoteFields : \E v \in RemoteValuesOf(f) :
          RemoteEdit(n, f, v)

Spec == Init /\ [][Next]_vars

(***************************************************************************)
(* The same program started where a Push of the two-entry source has       *)
(* created every card and saved, and the editor has since changed the      *)
(* source file: the one run already made counts as a run.                  *)
(***************************************************************************)
SyncedSource ==
    <<Translation(<<"a">>, <<"x">>, Empty, Empty, <<>>),
      Translation(<<"b">>, <<"y">>, Empty, Empty, <<>>)>>

\* the answer of addNotes to the four requests of that Push, at time 2
SyncedIds == AddNotesResult(1, 2 * Len(SyncedSource), {})

SyncedNotes == AddNotes(NoNotes, BuildNotes(SyncedSource), SyncedIds, 2)

SyncedStateFile ==
    LET done == CreateLoop([state |-> LoadState(NoStateFile),
                            heap |-> LoadHeap(NoStateFile), counts |-> NoCounts],
                           SyncedSource, SyncedIds, 1)
    IN  DumpState(UpdatePushTimestamp(done.state, 2), done.heap)

\* the source file as the editor left it after that Push: examples added to
\* some entries, or the second entry replaced by one with a new key
EditedSources ==
    {[i \in DOMAIN SyncedSource |->
        IF i \in edited THEN [SyncedSource[i] EXCEPT !.example = <<"e">>]
        ELSE SyncedSource[i]] : edited \in SUBSET (DOMAIN SyncedSource)}
    \cup {[SyncedSource EXCEPT ![2].spanish = <<"c">>]}

SyncedInit ==
    /\ sourceFile \in EditedSources
    /\ stateFile = SyncedStateFile
    /\ notes = SyncedNotes /\ nextId = 1 + 2 * Len(SyncedSource) /\ now = 2
    /\ Idle
    /\ prevPush = "" /\ dirty = {} /\ touched = {}
    /\ temps = NoTemps /\ decks = {DeckName} /\ models = SetUpModels
    /\ runs = 1 /\ events = 0

SyncedSpec == SyncedInit /\ [][Next]_vars

(***************************************************************************)
(* What the histories say.                                                 *)
(***************************************************************************)
Wrote(file) == \E i \in DOMAIN saves : saves[i] = Write(file, TRUE)

FailedToWrite(file) == \E i \in DOMAIN saves : saves[i] = Write(file, FALSE)

CallsOf(op) == {i \in DOMAIN calls : calls[i].op = op}

InPull == kind = "pull"

InPush == kind = "push"

\* the run has returned without raising
Returned == pc = "end" /\ error = ""

(***************************************************************************)
(* C1.  In Pull, when writing the entries to the source file fails, the    *)
(* state file is as it was before the run and the error is raised to the   *)
(* caller.                                                                 *)
(***************************************************************************)
PullSourceFailureKeepsState ==
    (InPull /\ FailedToWrite("source")) =>
        /\ stateFile = file0.state
        /\ ~(\E i \in DOMAIN saves : saves[i].file = "state")
        /\ pc = "end" /\ error # ""

\* a Pull whose source write failed while it held a changed state to save
PullSourceFailureSeen ==
    /\ InPull /\ FailedToWrite("source")
    /\ DumpState(state, heap).mappings # file0.state.mappings

(***************************************************************************)
(* C3.  In a Pull run the state file is written only after the source      *)
(* file has been written with success in that run.                         *)
(***************************************************************************)
PullWritesSourceBeforeState ==
    InPull =>
        /\ \A i \in DOMAIN saves :
              saves[i].file = "state" =>
                  \E j \in 1..(i - 1) : saves[j] = Write("source", TRUE)
        /\ stateFile # file0.state => Wrote("source")

\* a Pull that has written both files
PullWroteBoth ==
    InPull /\ Wrote("source") /\ Wrote("state") /\ stateFile # file0.state

(***************************************************************************)
(* C2.  Pull does not overwrite a field of an entry that the editor changed *)
(* since the last Push when no flashcard of the entry was edited in the     *)
(* remote since that Push.                                                  *)
(***************************************************************************)
NotesOf(m) == {m.es_en_note_id, m.en_es_note_id} \ {NoId}

PullKeepsUnsyncedEdits ==
    (InPull /\ Wrote("source")) =>
        \A i \in DOMAIN file0.source : \A f \in Fields :
            LET k == SourceId(file0.source[i])
            IN  (/\ <<k, f>> \in dirty
                 /\ k \in DOMAIN file0.state.mappings
                 /\ NotesOf(file0.state.mappings[k]) \cap touched = {})
                => sourceFile[i][f] = file0.source[i][f]

Directions == {"es_en", "en_es"}

IdOf(m, d) == IF d = "es_en" THEN m.es_en_note_id ELSE m.en_es_note_id

\* addNotes returned id n for the request of direction d of the new entry k
CreatedFor(k, d, n) ==
    \E c \in CallsOf("addNotes") : \E p \in DOMAIN calls[c].resp :
        /\ calls[c].resp[p] = n /\ DirectionOf(p) = d
        /\ SourceId(newEntries[EntryOf(p)]) = k

PushStateReflectsCommitted ==
    InPush =>
        /\ \A k \in DOMAIN stateFile.mappings : \A d \in Directions :
              LET n == IdOf(stateFile.mappings[k], d)
              IN  \/ n = NoId
                  \/ /\ k \in DOMAIN file0.state.mappings
                     /\ IdOf(file0.state.mappings[k], d) = n
                  \/ CreatedFor(k, d, n) /\ n \in DOMAIN notes
        /\ \A k \in DOMAIN file0.state.mappings \ DOMAIN stateFile.mappings :
              \E c \in CallsOf("deleteNotes") :
                  /\ calls[c].ok
                  /\ NotesOf(file0.state.mappings[k]) \subseteq calls[c].ids
                  /\ NotesOf(file0.state.mappings[k]) \cap DOMAIN notes = {}

\* a Push that has saved a state with a record made and a record removed
PushSavedCreatedAndDeleted ==
    /\ InPush /\ Wrote("state")
    /\ DOMAIN stateFile.mappings \ DOMAIN file0.state.mappings # {}
    /\ DOMAIN file0.state.mappings \ DOMAIN stateFile.mappings # {}

(***************************************************************************)
(* C6.  When two entries of the source have the same text after lowering    *)
(* the case and trimming, Push ends with a validation error, with no remote *)
(* call made and the state file not written.                                *)
(***************************************************************************)
Folded(s) == Strip(Lower(s))

Collide(doc) ==
    \E i, j \in DOMAIN doc : i < j /\ Folded(doc[i].spanish) = Folded(doc[j].spanish)

PushRejectsCollisions ==
    (InPush /\ Collide(file0.source)) =>
        /\ pc = "end" /\ error = "ValidationError"
        /\ calls = <<>> /\ saves = <<>>
        /\ stateFile = file0.state

\* a Push, not a dry run, of two entries that differ by case and blanks only
PushCollisionSeen ==
    /\ InPush /\ ~dryRun /\ stateFile.exists
    /\ \E i, j \in DOMAIN file0.source :
          /\ i < j
          /\ file0.source[i].spanish # file0.source[j].spanish
          /\ Folded(file0.source[i].spanish) = Folded(file0.source[j].spanish)

(***************************************************************************)
(* C7.  After addNotes answered, every new entry with a created card has a  *)
(* record, in memory and in the saved state, holding the returned id of     *)
(* each direction and null for a failed one, also the entries after a       *)
(* failure marker; the failure counter is the number of failure markers.    *)
(***************************************************************************)
PushCreateIsolatesFailures ==
    (InPush /\ calls # <<>> /\ calls[1].op = "addNotes" /\ calls[1].resp # <<>>) =>
        LET resp == calls[1].resp
        IN  /\ \A e \in DOMAIN newEntries :
                  LET k == SourceId(newEntries[e])
                      r1 == resp[2 * e - 1]
                      r2 == resp[2 * e]
                  IN  (r1 # NoId \/ r2 # NoId) =>
                          /\ k \in DOMAIN state.table
                          /\ heap[state.table[k]].es_en_note_id = r1
                          /\ heap[state.table[k]].en_es_note_id = r2
                          /\ Wrote("state") =>
                                /\ k \in DOMAIN stateFile.mappings
                                /\ stateFile.mappings[k].es_en_note_id = r1
                                /\ stateFile.mappings[k].en_es_note_id = r2
            /\ Len(calls) = 1 =>
                  counts.fail = Cardinality({p \in DOMAIN resp : resp[p] = NoId})

\* a saved batch of two entries in which one card of the first pair failed
PushCreateOneDirectionFailed ==
    /\ InPush /\ Wrote("state") /\ Len(newEntries) = 2
    /\ calls # <<>> /\ calls[1].op = "addNotes" /\ calls[1].resp # <<>>
    /\ calls[1].resp[1] # NoId /\ calls[1].resp[2] = NoId
    /\ calls[1].resp[3] # NoId /\ calls[1].resp[4] # NoId
    /\ counts.fail = 1

(***************************************************************************)
(* C8.  After a Pull that gave an entry a new key, the state file has no    *)
(* record under the old key, has a record under the new key with the old    *)
(* record's two flashcard ids, and the entry's spanish is the remote value. *)
(***************************************************************************)
PullRemapMovesRecord ==
    (InPull /\ Returned /\ Wrote("state")) =>
        \A r \in DOMAIN remaps :
            /\ remaps[r].old \notin DOMAIN stateFile.mappings
            /\ remaps[r].new \in DOMAIN stateFile.mappings
            /\ stateFile.mappings[remaps[r].new].es_en_note_id = remaps[r].es_en
            /\ stateFile.mappings[remaps[r].new].en_es_note_id = remaps[r].en_es
            /\ sourceFile[remaps[r].entry].spanish = remaps[r].value

(***************************************************************************)
(* C9.  After a Pull that gave an entry a new key, the record saved under   *)
(* the new key has last_pull_mod equal to the modification time fetched for *)
(* the flashcard that caused it.                                            *)
(***************************************************************************)
PullRemapAdvancesTimestamp ==
    (InPull /\ Returned /\ Wrote("state")) =>
        \A r \in DOMAIN remaps :
            remaps[r].new \in DOMAIN stateFile.mappings =>
                stateFile.mappings[remaps[r].new].last_pull_mod = remaps[r].mod

(***************************************************************************)
(* C10.  The delete phase of Push issues one deleteNotes call carrying      *)
(* every flashcard id of the records of the deleted entries; when the call  *)
(* succeeds all those records are removed, when it fails all of them stay.  *)
(***************************************************************************)
DoomedNotes == UNION {NotesOf(file0.state.mappings[k]) : k \in deletedIds}

PushDeleteAllOrNothing ==
    InPush =>
        /\ Cardinality(CallsOf("deleteNotes")) <= 1
        /\ (pc = "push_stamp" /\ deletedIds # {}) =>
              /\ Cardinality(CallsOf("deleteNotes")) = 1
              /\ \A c \in CallsOf("deleteNotes") :
                    calls[c].ok => deletedIds \cap DOMAIN stateFile.mappings = {}
        /\ \A c \in CallsOf("deleteNotes") :
              /\ calls[c].ids = DoomedNotes
              /\ calls[c].ok => deletedIds \cap DOMAIN state.table = {}
              /\ ~calls[c].ok =>
                    \A k \in deletedIds :
                        /\ k \in DOMAIN state.table
                        /\ heap[state.table[k]] = file0.state.mappings[k]
                        /\ k \in DOMAIN stateFile.mappings
                        /\ stateFile.mappings[k] = file0.state.mappings[k]

\* a Push whose deleteNotes call, carrying a pair of cards, succeeded
PushDeletedPair ==
    /\ InPush /\ pc = "push_stamp" /\ deletedIds # {}
    /\ \E c \in CallsOf("deleteNotes") :
          calls[c].ok /\ Cardinality(calls[c].ids) = 2
    /\ deletedIds \cap DOMAIN stateFile.mappings = {}

(***************************************************************************)
(* The two saves, step by step (SyncState.save, models/sync_state.py, and  *)
(* save_translations, utils/translation_io.py): the temporary file is      *)
(* opened, written chunk by chunk and renamed over the target; a step may  *)
(* fail, and the process may be killed between any two steps.  The rename  *)
(* is the one os.replace performs, atomic on the file system.              *)
(***************************************************************************)
SourcePath == <<"spanish-vocabulary", "yaml">>
StatePath == <<"sync_state", "json">>

\* Path.with_suffix
WithSuffix(p, suffix) == <<p[1], suffix>>

SaveKinds == {"save_source", "save_state"}

\* the file the save in progress is for, and its path
SaveTarget == IF kind = "save_source" THEN "source" ELSE "state"
TargetPath(t) == IF t = "source" THEN SourcePath ELSE StatePath

\* the document the save in progress writes
NewDoc(t) ==
    IF t = "source" THEN DumpTranslations(translations) ELSE DumpState(state, heap)

\* the pieces the serialiser hands to the file: the opening, then one per
\* entry or mapping
Chunks(t, doc) ==
    1 + (IF t = "source" THEN Len(doc) ELSE Cardinality(DOMAIN doc.mappings))

\* a file holding only the first n pieces of a document
Torn(t, n) == IF t = "source" THEN <<[torn |-> n]>> ELSE [exists |-> TRUE, torn |-> n]

\* a file holding the first n pieces of doc
Written(t, doc, n) == IF n = Chunks(t, doc) THEN doc ELSE Torn(t, n)

\* the file at path p
FileAt(p) ==
    CASE p = SourcePath -> [exists |-> TRUE, doc |-> sourceFile]
      [] p = StatePath -> [exists |-> stateFile.exists, doc |-> stateFile]
      [] p = WithSuffix(SourcePath, "tmp") -> temps.source
      [] p = WithSuffix(StatePath, "tmp") -> temps.state

\* the file at path p becomes doc, every other file stays
PutFile(p, doc) ==
    /\ sourceFile' = IF p = SourcePath THEN doc ELSE sourceFile
    /\ stateFile' = IF p = StatePath THEN doc ELSE stateFile
    /\ temps' = CASE p = WithSuffix(SourcePath, "tmp") ->
                        [temps EXCEPT !.source = [exists |-> TRUE, doc |-> doc]]
                   [] p = WithSuffix(StatePath, "tmp") ->
                        [temps EXCEPT !.state = [exists |-> TRUE, doc |-> doc]]
                   [] OTHER -> temps

\* a save that writes the target itself
WritePathInPlace(p) == p

\* sync_state.py:75, translation_io.py:62: the path the save writes to
WritePath(p) == WithSuffix(p, "tmp")

\* a handler that leaves the temporary file where it is
CleanedUpNot(t, tmp) == tmp

\* sync_state.py:83-85, translation_io.py:72-74: the temporary file after
\* the except clause
CleanedUp(t, tmp) == IF tmp.exists THEN NoTemps[t] ELSE tmp

\* sync_state.py:86, translation_io.py:75: what the except clause raises
SaveError(k) == IF k = "save_source" THEN "ValidationError" ELSE "OSError"

saveFrame == <<notes, nextId, now, dryRun, translations, state, heap, newEntries,
               updatedEntries, deletedIds, modifiedNotes, transById, kind, calls,
               counts, file0, saves, remaps, remoteErrors, histVars, decks, models,
               runs, events>>

\* open(temp_file, "w"): the file is created or truncated
SaveOpen(ok) ==
    /\ kind \in SaveKinds /\ pc = "save_open"
    /\ idx' = 0
    /\ IF ok
       THEN /\ PutFile(WritePath(TargetPath(SaveTarget)), Torn(SaveTarget, 0))
            /\ pc' = "save_write"
       ELSE /\ pc' = "save_cleanup"
            /\ UNCHANGED <<sourceFile, stateFile, temps>>
    /\ UNCHANGED <<error, saveFrame>>

\* json.dump / yaml.safe_dump: one more piece reaches the file, or the write
\* fails; after the last piece the with block closes the file
SaveWrite(ok) ==
    /\ kind \in SaveKinds /\ pc = "save_write"
    /\ LET t == SaveTarget
           doc == NewDoc(t)
       IN  IF ok
           THEN /\ idx' = idx + 1
                /\ PutFile(WritePath(TargetPath(t)), Written(t, doc, idx + 1))
                /\ pc' = IF idx + 1 = Chunks(t, doc) THEN "save_replace" ELSE "save_write"
           ELSE /\ pc' = "save_cleanup"
                /\ UNCHANGED <<idx, sourceFile, stateFile, temps>>
    /\ UNCHANGED <<error, saveFrame>>

\* temp_file.replace(target): the target becomes the temporary file
SaveReplace(ok) ==
    /\ kind \in SaveKinds /\ pc = "save_replace"
    /\ LET t == SaveTarget
           tmp == FileAt(WithSuffix(TargetPath(t), "tmp"))
       IN  IF ok /\ tmp.exists
           THEN /\ sourceFile' = IF t = "source" THEN tmp.doc ELSE sourceFile
                /\ stateFile' = IF t = "state" THEN tmp.doc ELSE stateFile
                /\ temps' = [temps EXCEPT ![t] = NoTemps[t]]
                /\ pc' = "end"
           ELSE /\ pc' = "save_cleanup"
                /\ UNCHANGED <<sourceFile, stateFile, temps>>
    /\ UNCHANGED <<idx, error, saveFrame>>

\* the except clause: the temporary file is removed, the error leaves
SaveCleanup ==
    /\ kind \in SaveKinds /\ pc = "save_cleanup"
    /\ temps' = [temps EXCEPT ![SaveTarget] = CleanedUp(SaveTarget, @)]
    /\ Raise(SaveError(kind))
    /\ UNCHANGED <<sourceFile, stateFile, idx, saveFrame>>

\* the process is killed where it stands
Kill ==
    /\ kind \in SaveKinds /\ pc \in {"save_open", "save_write", "save_replace", "save_cleanup"}
    /\ pc' = "killed"
    /\ UNCHANGED <<sourceFile, stateFile, temps, idx, error, saveFrame>>

\* a temporary file an earlier, killed save left behind
StaleTemps ==
    {[NoTemps EXCEPT ![t] = [exists |-> TRUE, doc |-> Torn(t, 1)]] : t \in {"source", "state"}}

SaveInit ==
    /\ kind \in SaveKinds /\ pc = "save_open"
    /\ sourceFile \in InitialSources
    /\ stateFile \in {NoStateFile, SyncedStateFile}
    /\ temps \in {NoTemps} \cup StaleTemps
    /\ translations \in {LoadTranslations(doc) : doc \in InitialSources \cup EditedSources}
    /\ \E f \in {NoStateFile, SyncedStateFile}, t \in {0, 3} :
          /\ state = UpdatePushTimestamp(LoadState(f), t)
          /\ heap = LoadHeap(f)
    /\ file0 = [source |-> sourceFile, state |-> stateFile]
    /\ notes = NoNotes /\ nextId = 1 /\ now = 1
    /\ dryRun = FALSE /\ newEntries = <<>> /\ updatedEntries = <<>> /\ deletedIds = {}
    /\ modifiedNotes = <<>> /\ transById = NoMappings /\ idx = 0
    /\ error = "" /\ calls = <<>> /\ counts = NoCounts
    /\ saves = <<>> /\ remaps = <<>> /\ remoteErrors = {}
    /\ prevPush = "" /\ dirty = {} /\ touched = {}
    /\ decks = {DeckName} /\ models = SetUpModels
    /\ runs = 0 /\ events = 0

SaveNext ==
    \/ \E ok \in BOOLEAN : SaveOpen(ok)
    \/ \E ok \in BOOLEAN : SaveWrite(ok)
    \/ \E ok \in BOOLEAN : SaveReplace(ok)
    \/ SaveCleanup
    \/ Kill

SaveSpec == SaveInit /\ [][SaveNext]_vars

\* the target of the save in progress, as it is on disk
TargetFile == IF SaveTarget = "source" THEN sourceFile ELSE stateFile

\* C12: wherever a save of the state file or of the source file is killed,
\* the file on disk is the complete previous version or the complete new
\* version, and the other file is untouched
SaveKilledLeavesOldOrNew ==
    /\ TargetFile \in {file0[SaveTarget], NewDoc(SaveTarget)}
    /\ SaveTarget = "source" => stateFile = file0.state
    /\ SaveTarget = "state" => sourceFile = file0.source

\* a save killed with part of the new document in the temporary file
SaveKilledMidWrite ==
    /\ pc = "killed" /\ 0 < idx /\ idx < Chunks(SaveTarget, NewDoc(SaveTarget))
    /\ temps[SaveTarget] = [exists |-> TRUE, doc |-> Torn(SaveTarget, idx)]
    /\ TargetFile = file0[SaveTarget] /\ TargetFile # NewDoc(SaveTarget)

\* C13: a save that fails, at the open, at a write or at the rename, raises
\* to its caller with the temporary file removed and the target as it was
SaveFailureCleansUp ==
    (pc = "end" /\ error # "") =>
        /\ error = SaveError(kind)
        /\ ~temps[SaveTarget].exists
        /\ sourceFile = file0.source /\ stateFile = file0.state

\* a save whose rename failed after the whole document was written
SaveRenameFailed ==
    /\ pc = "end" /\ error # ""
    /\ idx = Chunks(SaveTarget, NewDoc(SaveTarget))
    /\ TargetFile # NewDoc(SaveTarget)

(***************************************************************************)
(* SetupHandler (handlers/setup_handler.py), run against a remote that may *)
(* or may not hold the deck and the note type.                             *)
(***************************************************************************)
\* _ensure_model, line 90: set(fields) == set(expected_fields)
FieldsMatch(fields) ==
    {fields[i] : i \in DOMAIN fields} = {ModelFields[i] : i \in DOMAIN ModelFields}

\* what a call of setup that the remote fails raises
SetupError(outcome) == IF Fatal(outcome) THEN "AnkiConnectionError" ELSE "AnkiAPIError"

setupFrame == <<sourceFile, stateFile, notes, nextId, now, translations, state, heap,
                newEntries, updatedEntries, deletedIds, modifiedNotes, transById,
                idx, counts, file0, saves, remaps, remoteErrors, histVars, temps,
                runs, events>>

\* SetupHandler.__init__ and the entry of execute
SetupStart(dry) ==
    /\ pc = "idle"
    /\ kind' = "setup" /\ dryRun' = dry /\ pc' = "setup_verify"
    /\ UNCHANGED <<error, calls, decks, models, setupFrame>>

\* _verify_connection, lines 46-58: version()
SetupVerify(outcome) ==
    /\ kind = "setup" /\ pc = "setup_verify"
    /\ outcome \in {"ok", "api", "conn"}
    /\ IF outcome = "ok" THEN pc' = "setup_deck" /\ error' = ""
       ELSE Raise(SetupError(outcome))
    /\ UNCHANGED <<kind, dryRun, calls, decks, models, setupFrame>>

\* _ensure_deck, lines 60-73: deck_names(), then create_deck() when the deck
\* is not among them
SetupEnsureDeck(listed, created) ==
    /\ kind = "setup" /\ pc = "setup_deck"
    /\ listed \in (IF dryRun THEN {"none"} ELSE {"ok", "api", "conn"})
    /\ created \in (IF listed = "ok" /\ DeckName \notin decks
                     THEN {"ok", "api", "conn"} ELSE {"none"})
    /\ calls' = IF created = "none" THEN calls
                ELSE Append(calls, Call("createDeck", {}, created = "ok", <<>>))
    /\ decks' = IF created = "ok" THEN decks \cup {DeckName} ELSE decks
    /\ IF listed \in {"api", "conn"} THEN Raise(SetupError(listed))
       ELSE IF created \in {"api", "conn"} THEN Raise(SetupError(created))
       ELSE pc' = "setup_model" /\ error' = ""
    /\ UNCHANGED <<kind, dryRun, models, setupFrame>>

\* _ensure_model, lines 75-115: model_names(), then model_field_names() and
\* the comparison when the note type exists, create_model() when it does not
SetupEnsureModel(listed, checked, created) ==
    /\ kind = "setup" /\ pc = "setup_model"
    /\ LET present == ModelName \in DOMAIN models
       IN  /\ listed \in (IF dryRun THEN {"none"} ELSE {"ok", "api", "conn"})
           /\ checked \in (IF listed = "ok" /\ present
                            THEN {"ok", "api", "conn"} ELSE {"none"})
           /\ created \in (IF listed = "ok" /\ ~present
                            THEN {"ok", "api", "conn"} ELSE {"none"})
           /\ calls' = IF created = "none" THEN calls
                       ELSE Append(calls, Call("createModel", {}, created = "ok", <<>>))
           /\ models' = IF created = "ok" THEN Put(models, ModelName, ModelFields)
                        ELSE models
           /\ CASE listed \in {"api", "conn"} -> Raise(SetupError(listed))
                [] checked \in {"api", "conn"} -> Raise(SetupError(checked))
                [] created \in {"api", "conn"} -> Raise(SetupError(created))
                [] checked = "ok" /\ ~FieldsMatch(models[ModelName]) ->
                      Raise("ConfigError")
                [] OTHER -> pc' = "end" /\ error' = ""
    /\ UNCHANGED <<kind, dryRun, decks, setupFrame>>

\* the note types a remote may hold under the configured name: none, the
\* fields of setup in another order, too few, too many
ModelPool ==
    {[m \in {} |-> <<>>]} \cup
    {[m \in {ModelName} |-> fs] :
        fs \in {ModelFields, <<"Back", "Front", "Notes", "Example">>,
                <<"Front", "Back">>, ModelFields \o <<"Audio">>}}

SetupInit ==
    /\ decks \in SUBSET {DeckName, "Default"}
    /\ models \in ModelPool
    /\ sourceFile \in InitialSources
    /\ stateFile = NoStateFile
    /\ notes = NoNotes /\ nextId = 1 /\ now = 1
    /\ Idle
    /\ prevPush = "" /\ dirty = {} /\ touched = {}
    /\ temps = NoTemps
    /\ runs = 0 /\ events = 0

SetupNext ==
    \/ \E dry \in BOOLEAN : SetupStart(dry)
    \/ \E o \in Outcomes : SetupVerify(o)
    \/ \E o1, o2 \in Outcomes : SetupEnsureDeck(o1, o2)
    \/ \E o1, o2, o3 \in Outcomes : SetupEnsureModel(o1, o2, o3)

SetupSpec == SetupInit /\ [][SetupNext]_vars

\* C19: a setup that ends with the field-mismatch error has attempted no
\* deck creation and no note-type creation
SetupMismatchBeforeMutation ==
    (kind = "setup" /\ error = "ConfigError") => calls = <<>>

(***************************************************************************)
(* Connectivity failures.                                                  *)
(***************************************************************************)
ConnectionLost == \E f \in remoteErrors : f.outcome = "conn"

\* a call that changed the remote collection
Mutated(c) == c.op # "sync" /\ (c.ok \/ (c.op = "addNotes" /\ c.ids # {}))

NothingApplied ==
    /\ \A i \in DOMAIN calls : ~Mutated(calls[i])
    /\ saves = <<>>
    /\ sourceFile = file0.source /\ stateFile = file0.state

\* C14 as stated: a run that a connectivity failure aborts has performed no
\* remote mutation and has changed neither the state file nor the source
\* file
ConnectivityFailureAppliesNothing ==
    ConnectionLost => pc = "end" /\ error = "AnkiConnectionError" /\ NothingApplied

\* C14, amended: a connectivity failure ends the run at the call it hits,
\* with the connection error; a Pull, and a Push whose first remote call it
\* hits, has then applied nothing, and it never touches the source file
ConnectivityFailureIsFatal ==
    ConnectionLost =>
        /\ pc = "end" /\ error = "AnkiConnectionError"
        /\ sourceFile = file0.source
        /\ InPull => NothingApplied /\ calls = <<>>
        /\ InPush => calls # <<>> /\ ~calls[Len(calls)].ok
        /\ (InPush /\ Len(calls) = 1) => NothingApplied

\* a Push with work to do whose first remote call met the connectivity
\* failure
ConnectivityFailureOnFirstCall ==
    /\ ConnectionLost /\ InPush /\ Len(calls) = 1
    /\ newEntries # <<>> /\ pc = "end"

(***************************************************************************)
(* Dry runs.                                                               *)
(***************************************************************************)
\* C15: a Push in dry-run mode issues no create, field-update, delete or
\* sync call and does not write the state file
PushDryRunAppliesNothing ==
    (InPush /\ dryRun) =>
        /\ calls = <<>> /\ saves = <<>>
        /\ stateFile = file0.state /\ sourceFile = file0.source

\* a dry-run Push that had entries to create and returned
PushDryRunWithWork ==
    InPush /\ dryRun /\ Returned /\ newEntries # <<>>

\* C16: a Pull in dry-run mode leaves the source file and the state file as
\* they were, whether or not it detected modified flashcards
PullDryRunAppliesNothing ==
    (InPull /\ dryRun) =>
        /\ saves = <<>>
        /\ sourceFile = file0.source /\ stateFile = file0.state

\* a dry-run Pull that detected modified flashcards and returned
PullDryRunWithWork ==
    InPull /\ dryRun /\ Returned /\ modifiedNotes # <<>>

(***************************************************************************)
(* Mapping records and the cards behind them.                              *)
(***************************************************************************)
\* the ids addNotes call c returned for the j-th new entry
MadeFor(c, j) == {calls[c].resp[2 * j - 1], calls[c].resp[2 * j]} \ {NoId}

\* C17: every mapping record, in the state file and in the run's state,
\* holds at least one card id, and once addNotes has answered a Push a new
\* entry has a mapping record if and only if one of its two requests came
\* back with an id
MappingIffCardCreated ==
    /\ \A k \in DOMAIN stateFile.mappings : NotesOf(stateFile.mappings[k]) # {}
    /\ \A k \in DOMAIN state.table : NotesOf(heap[state.table[k]]) # {}
    /\ InPush =>
          \A c \in CallsOf("addNotes") : \A j \in DOMAIN newEntries :
              LET k == SourceId(newEntries[j])
              IN  IF calls[c].resp = <<>> \/ MadeFor(c, j) = {}
                  THEN k \notin DOMAIN state.table /\ k \notin DOMAIN stateFile.mappings
                  ELSE /\ k \in DOMAIN state.table
                       /\ NotesOf(heap[state.table[k]]) = MadeFor(c, j)

\* a Push in which both requests of the first new entry came back as failure
\* markers and the second entry's cards were created and saved
PushCreateWholeEntryFailed ==
    /\ InPush /\ Len(newEntries) = 2 /\ pc = "push_stamp"
    /\ \E c \in CallsOf("addNotes") :
          /\ calls[c].resp # <<>>
          /\ MadeFor(c, 1) = {} /\ Cardinality(MadeFor(c, 2)) = 2
    /\ SourceId(newEntries[2]) \in DOMAIN stateFile.mappings
    /\ SourceId(newEntries[1]) \notin DOMAIN stateFile.mappings

(***************************************************************************)
(* The apply phase of Pull.                                                *)
(***************************************************************************)
TextFields == {"spanish", "english", "example", "notes"}

\* the field of the note that stands for field f of the entry of mapping m
RemoteFieldFor(note, m, f) ==
    CASE f = "spanish" -> IF note.noteId = m.es_en_note_id
                          THEN note.fields.front ELSE note.fields.back
      [] f = "english" -> IF note.noteId = m.es_en_note_id
                          THEN note.fields.back ELSE note.fields.front
      [] f = "example" -> note.fields.example
      [] f = "notes" -> note.fields.notes

\* C18: a turn of the apply loop of Pull changes a field of an entry only to
\* the corresponding field of the note it applies, and only when that field
\* is not empty and differs from the entry's; it changes no other entry and
\* no tags
PullOverwritesOnlyNonEmpty ==
    [][pc = "pull_apply" =>
          LET note == modifiedNotes[idx]
              m == heap[note.obj]
          IN  \A i \in DOMAIN translations :
                  /\ translations'[i].tags = translations[i].tags
                  /\ \A f \in TextFields :
                        translations'[i][f] # translations[i][f] =>
                            /\ i = transById[m.source_id]
                            /\ RemoteFieldFor(note, m, f) # Empty
                            /\ RemoteFieldFor(note, m, f) # translations[i][f]
                            /\ translations'[i][f] = RemoteFieldFor(note, m, f)]_vars

\* a Pull that applied a note whose example is empty to an entry that has
\* an example: the entry took the note's text and kept its example
PullKeptExampleOverEmpty ==
    /\ InPull /\ idx = 2 /\ remaps = <<>>
    /\ modifiedNotes[1].fields.example = Empty
    /\ heap[modifiedNotes[1].obj].source_id \in DOMAIN transById
    /\ LET i == transById[heap[modifiedNotes[1].obj].source_id]
       IN  /\ translations[i].example # Empty
           /\ translations[i].example = file0.source[i].example
           /\ translations[i].english # file0.source[i].english

(***************************************************************************)
(* Failures of the reads of Pull.                                          *)
(***************************************************************************)
\* C20: a Pull in which the remote failed a read (the query for the notes,
\* their info, a note's card info) with an API error has ended, has changed
\* no entry and has written neither file
PullReadFailureAborts ==
    (InPull /\ \E f \in remoteErrors : f.outcome = "api") =>
        /\ pc = "end" /\ translations = <<>>
        /\ saves = <<>>
        /\ sourceFile = file0.source /\ stateFile = file0.state

(***************************************************************************)
(* The update phase of Push.                                               *)
(***************************************************************************)
\* the field updates the run has issued for note n
UpdateCallsFor(n) == {i \in CallsOf("updateNoteFields") : calls[i].ids = {n}}

\* the turns of the loop of _update_cards that have completed
UpdateTurnsDone ==
    CASE InPush /\ pc = "push_update" -> idx - 1
      [] InPush /\ pc \in {"push_delete", "push_stamp", "push_sync"} ->
            Len(updatedEntries)
      [] InPush /\ pc = "end" /\ ~dryRun /\ error = "" -> Len(updatedEntries)
      [] OTHER -> 0

\* the cards of the j-th updated entry
CardsOfUpdated(j) ==
    {heap[updatedEntries[j].obj].es_en_note_id,
     heap[updatedEntries[j].obj].en_es_note_id} \ {NoId}

SomeUpdateSucceeded(j) ==
    \E n \in CardsOfUpdated(j) : \E i \in UpdateCallsFor(n) : calls[i].ok

HashAdvanced(j) ==
    heap[updatedEntries[j].obj].last_push_hash = ContentHash(updatedEntries[j].trans)

\* C11: in the update phase of Push every card of every updated entry gets
\* its field update, whatever the update before it answered, and the
\* mapping's stored hash is the entry's current hash if and only if at least
\* one of the entry's updates succeeded
PushUpdateIsolatesFailures ==
    \A j \in 1..UpdateTurnsDone :
        /\ \A n \in CardsOfUpdated(j) : UpdateCallsFor(n) # {}
        /\ HashAdvanced(j) <=> SomeUpdateSucceeded(j)

\* both updates of the first entry failed, both of the second succeeded
PushUpdateFirstEntryFailed ==
    /\ UpdateTurnsDone = 2
    /\ Cardinality(CardsOfUpdated(1)) = 2 /\ Cardinality(CardsOfUpdated(2)) = 2
    /\ \A n \in CardsOfUpdated(1) : \A i \in UpdateCallsFor(n) : ~calls[i].ok
    /\ \A n \in CardsOfUpdated(2) : \A i \in UpdateCallsFor(n) : calls[i].ok
    /\ ~HashAdvanced(1) /\ HashAdvanced(2)

(***************************************************************************)
(* The create phase of Push when every request succeeds.                   *)
(***************************************************************************)
\* C21: when addNotes created every requested note, the Push issued one
\* addNotes call, answered with two ids per new entry; the note at an entry's
\* first position is its es_en card and the one at its second its en_es
\* card, and the entry has one mapping, holding exactly those two ids and the
\* entry's current hash, while no other mapping holds either id
PushCreateBatchMapsPairs ==
    InPush =>
        \A c \in CallsOf("addNotes") :
            calls[c].ok =>
                /\ CallsOf("addNotes") = {c}
                /\ Len(calls[c].resp) = 2 * Len(newEntries)
                /\ \A j \in DOMAIN newEntries :
                      LET t == newEntries[j]
                          k == SourceId(t)
                          n1 == calls[c].resp[2 * j - 1]
                          n2 == calls[c].resp[2 * j]
                      IN  /\ n1 # NoId /\ n2 # NoId /\ n1 # n2
                          /\ Note(notes[n1].front, notes[n1].back, notes[n1].example,
                                  notes[n1].notes) = BuildFields(t, "es_en")
                          /\ Note(notes[n2].front, notes[n2].back, notes[n2].example,
                                  notes[n2].notes) = BuildFields(t, "en_es")
                          /\ k \in DOMAIN state.table
                          /\ heap[state.table[k]].es_en_note_id = n1
                          /\ heap[state.table[k]].en_es_note_id = n2
                          /\ heap[state.table[k]].last_push_hash = ContentHash(t)
                          /\ \A k2 \in DOMAIN state.table \ {k} :
                                NotesOf(heap[state.table[k2]]) \cap {n1, n2} = {}

\* a Push that created both cards of two new entries and saved the state
PushCreatedTwoPairs ==
    /\ InPush /\ Len(newEntries) = 2 /\ pc = "push_stamp"
    /\ \E c \in CallsOf("addNotes") : calls[c].ok /\ Cardinality(calls[c].ids) = 4
    /\ Wrote("state")

(***************************************************************************)
(* Translation.content_hash as a function of the entry: two entries are    *)
(* loaded from a document, and then their labels are reordered and the     *)
(* entries are written out and loaded again, any number of times.          *)
(***************************************************************************)
\* the label lists a record of the document may carry
HashTagLists == {<<>>, <<1>>, <<2>>, <<1, 1>>, <<1, 2>>, <<2, 1>>, <<2, 2>>}

\* the records a document may hold: the optional keys present or not
HashRecords ==
    {[spanish |-> <<"a">>, english |-> <<"x">>]} \cup
    {[spanish |-> <<"a">>, english |-> <<"x">>, tags |-> tg] : tg \in HashTagLists} \cup
    {[spanish |-> <<"a">>, english |-> <<"x">>, example |-> ex, notes |-> Empty,
      tags |-> tg] : ex \in {Empty, <<"e">>}, tg \in HashTagLists}

hashFrame == <<stateFile, notes, nextId, now, dryRun, state, heap, newEntries,
               updatedEntries, deletedIds, modifiedNotes, transById, idx, kind,
               error, calls, counts, file0, saves, remaps, remoteErrors, histVars,
               sideVars, runs, events, pc>>

\* the editor puts the labels of entry i in another order
HashReorder(i, p) ==
    /\ kind = "hash" /\ i \in DOMAIN translations
    /\ p \in Permutations(DOMAIN translations[i].tags)
    /\ translations' = [translations EXCEPT
                           ![i].tags = [j \in DOMAIN @ |-> @[p[j]]]]
    /\ UNCHANGED <<sourceFile, hashFrame>>

\* save_translations, then load_translations of what it wrote
HashRoundTrip ==
    /\ kind = "hash"
    /\ sourceFile' = DumpTranslations(translations)
    /\ translations' = LoadTranslations(sourceFile')
    /\ UNCHANGED hashFrame

HashInit ==
    /\ sourceFile \in {<<r1, r2>> : r1 \in HashRecords, r2 \in HashRecords}
    /\ translations = LoadTranslations(sourceFile)
    /\ kind = "hash" /\ pc = "idle"
    /\ stateFile = NoStateFile
    /\ notes = NoNotes /\ nextId = 1 /\ now = 1
    /\ dryRun = FALSE
    /\ state = LoadState(NoStateFile) /\ heap = LoadHeap(NoStateFile)
    /\ newEntries = <<>> /\ updatedEntries = <<>> /\ deletedIds = {}
    /\ modifiedNotes = <<>> /\ transById = NoMappings /\ idx = 0
    /\ error = "" /\ calls = <<>> /\ counts = NoCounts
    /\ file0 = NoFiles /\ saves = <<>> /\ remaps = <<>> /\ remoteErrors = {}
    /\ prevPush = "" /\ dirty = {} /\ touched = {}
    /\ temps = NoTemps /\ decks = {DeckName} /\ models = SetUpModels
    /\ runs = 0 /\ events = 0

HashNext ==
    \/ \E i \in 1..2, p \in Permutations(1..2) \cup Permutations(1..1) :
          HashReorder(i, p)
    \/ HashRoundTrip

HashSpec == HashInit /\ [][HashNext]_vars

\* the labels of an entry, as a set
LabelSet(t) == {t.tags[i] : i \in DOMAIN t.tags}

SameFieldsAndLabels(t, u) ==
    /\ \A f \in TextFields : t[f] = u[f]
    /\ LabelSet(t) = LabelSet(u)

\* C22: reordering an entry's labels, or writing the entries out and loading
\* them again, never changes an entry's hash, and two entries with equal
\* text fields and equal label sets have equal hashes
HashDependsOnFieldsAndLabelSet ==
    /\ [](SameFieldsAndLabels(translations[1], translations[2]) =>
            ContentHash(translations[1]) = ContentHash(translations[2]))
    /\ [][\A i \in DOMAIN translations :
            ContentHash(translations'[i]) = ContentHash(translations[i])]_vars

(***************************************************************************)
(* The diff of Push.                                                       *)
(***************************************************************************)
ClassedNew(t) == \E j \in DOMAIN newEntries : newEntries[j] = t

ClassedUpdated(t) == \E j \in DOMAIN updatedEntries : updatedEntries[j].trans = t

\* C23: for a collision-free list of entries the diff of Push puts an entry
\* among the new ones exactly when the state file has no mapping under its
\* key, among the updated ones exactly when it has one whose stored hash
\* differs from the entry's hash, and nowhere otherwise; the deleted keys are
\* exactly the mapping keys that are the key of no entry
PushDiffClassifies ==
    (InPush /\ ~HasCollision(translations)) =>
        LET M == file0.state.mappings
        IN  /\ \A i \in DOMAIN translations :
                  LET t == translations[i]
                      k == SourceId(t)
                  IN  /\ ClassedNew(t) <=> k \notin DOMAIN M
                      /\ ClassedUpdated(t) <=>
                            (k \in DOMAIN M /\ M[k].last_push_hash # ContentHash(t))
                      /\ ~(ClassedNew(t) /\ ClassedUpdated(t))
            /\ \A j \in DOMAIN newEntries :
                  \E i \in DOMAIN translations : translations[i] = newEntries[j]
            /\ \A j \in DOMAIN updatedEntries :
                  \E i \in DOMAIN translations : translations[i] = updatedEntries[j].trans
            /\ Len(newEntries) + Len(updatedEntries) <= Len(translations)
            /\ deletedIds = {k \in DOMAIN M : k \notin Keys(translations)}

\* a Push whose diff holds a new entry, an updated entry and a deleted key
PushDiffHasEveryClass ==
    /\ InPush /\ ~HasCollision(translations)
    /\ newEntries # <<>> /\ updatedEntries # <<>> /\ deletedIds # {}


\* the place of a phase of Push in the order create, update, delete, timestamp,
\* remote sync
PhaseRank(p) ==
    CASE p = "push_create" -> 1 [] p = "push_update" -> 2 [] p = "push_delete" -> 3
      [] p = "push_stamp" -> 4 [] p = "push_sync" -> 5 [] OTHER -> 6

\* the phase a remote call belongs to
OpRank(op) ==
    CASE op = "addNotes" -> 1 [] op = "updateNoteFields" -> 2 [] op = "deleteNotes" -> 3
      [] OTHER -> 5

\* one step of a Push that applies changes: the phases follow one another in
\* the order create, update, delete, timestamp; a step that leaves a phase for
\* a later one has written the whole in-memory state to the state file; and a
\* step that issues a remote call of a phase after the first one the run went
\* through found the state file equal to the state as the phase before left it
PushPhaseStep ==
    (InPush /\ kind' = "push" /\ PhaseRank(pc) <= 5) =>
        /\ PhaseRank(pc') >= PhaseRank(pc)
        /\ (PhaseRank(pc') > PhaseRank(pc) /\ PhaseRank(pc') <= 5) =>
              stateFile' = DumpState(state', heap')
        /\ (calls' # calls /\ saves # <<>> /\ (pc = "push_update" => idx = 1)) =>
              stateFile = DumpState(state, heap)
        /\ (pc = "push_update" /\ idx = 1 /\ calls' # calls) =>
              \A j \in DOMAIN calls : calls[j].op = "addNotes" /\ calls[j].ok =>
                 \A e \in DOMAIN newEntries :
                    LET k == SourceId(newEntries[e])
                    IN  /\ k \in DOMAIN stateFile.mappings
                        /\ stateFile.mappings[k].es_en_note_id = calls[j].resp[2 * e - 1]
                        /\ stateFile.mappings[k].en_es_note_id = calls[j].resp[2 * e]

\* C24: a Push that applies changes runs its phases in the order create,
\* update, delete, timestamp, and the state is on disk after each phase that
\* runs and before any remote call of the next one; the mappings of the create
\* batch are in the state file before the first field-update call
PushPhasesInOrderWithCheckpoints ==
    /\ [](InPush => \A i, j \in DOMAIN calls :
                        i < j => OpRank(calls[i].op) <= OpRank(calls[j].op))
    /\ [][PushPhaseStep]_vars

\* a Push that ran the four phases, each with its remote call and its save
PushRanFourPhases ==
    /\ InPush /\ pc = "end" /\ error = ""
    /\ \E i, j, k \in DOMAIN calls :
          /\ calls[i].op = "addNotes" /\ calls[i].ok
          /\ calls[j].op = "updateNoteFields" /\ calls[j].ok
          /\ calls[k].op = "deleteNotes" /\ calls[k].ok
    /\ Len(saves) = 4 /\ \A i \in DOMAIN saves : saves[i] = Write("state", TRUE)
    /\ stateFile = DumpState(state, heap)
    /\ stateFile.last_push = now

(***************************************************************************)
(* The detection of Pull.                                                  *)
(***************************************************************************)
\* the notes the run classified as modified
ClassedModified == {modifiedNotes[i].noteId : i \in DOMAIN modifiedNotes}

\* the mapping records of the loaded state file that hold note n in either
\* direction
RecordsOf(n) ==
    {k \in DOMAIN file0.state.mappings :
        \/ file0.state.mappings[k].es_en_note_id = n
        \/ file0.state.mappings[k].en_es_note_id = n}

\* C25: in a Pull whose query the remote answered, a returned note is
\* classified as modified exactly when a mapping record holds its id, in
\* either direction, and the largest modification time of its cards is
\* greater than the record's last_pull_mod; a note no record holds is not
\* classified
PullClassifiesModified ==
    (InPull /\ ~\E f \in remoteErrors : f.op = "query") =>
        \A n \in DOMAIN notes :
            n \in ClassedModified <=>
                \E k \in RecordsOf(n) :
                    CardsMaxMod(notes, n) > file0.state.mappings[k].last_pull_mod

(***************************************************************************)
(* The sides of a note in the apply loop of Pull.                          *)
(***************************************************************************)
\* what a field of the entry becomes under a value of the remote note
Taken(remote, current) == IF remote # Empty /\ remote # current THEN remote ELSE current

\* the entry the turn of the apply loop at idx works on
TurnFinds == heap[modifiedNotes[idx].obj].source_id \in DOMAIN transById

TurnEntry == transById[heap[modifiedNotes[idx].obj].source_id]

\* one turn of the apply loop on an entry it found: a Spanish-first note gives
\* its front to the Spanish text and its back to the English text, an
\* English-first note its front to the English text and its back to the
\* Spanish text, and either gives its example and its notes to the entry's
PullApplyBySide ==
    (InPull /\ pc = "pull_apply" /\ TurnFinds) =>
        LET note == modifiedNotes[idx]
            m == heap[note.obj]
            f == note.fields
            t == translations[TurnEntry]
            u == translations'[TurnEntry]
        IN  /\ note.noteId = m.es_en_note_id =>
                  /\ u.spanish = Taken(f.front, t.spanish)
                  /\ u.english = Taken(f.back, t.english)
            /\ (note.noteId # m.es_en_note_id /\ note.noteId = m.en_es_note_id) =>
                  /\ u.english = Taken(f.front, t.english)
                  /\ u.spanish = Taken(f.back, t.spanish)
            /\ u.example = Taken(f.example, t.example)
            /\ u.notes = Taken(f.notes, t.notes)
            /\ u.tags = t.tags

\* C26: in the apply loop of Pull a Spanish-first note writes its front to the
\* entry's Spanish text and its back to the English text, an English-first
\* note writes its front to the English text and its back to the Spanish
\* text, and the example and the notes are applied alike in both directions
PullAppliesSidesByDirection == [][PullApplyBySide]_vars

\* a Pull that applied an English-first note whose front the remote user had
\* edited: the entry's English text is now that front
PullTookEnglishFromFront ==
    /\ InPull /\ pc \in {"pull_apply", "pull_save"} /\ idx > 1
    /\ \E j \in 1..(idx - 1) : \E i \in DOMAIN translations :
          LET note == modifiedNotes[j]
          IN  /\ note.noteId = heap[note.obj].en_es_note_id
              /\ note.noteId # heap[note.obj].es_en_note_id
              /\ note.fields.front # Empty
              /\ SourceId(translations[i]) = heap[note.obj].source_id
              /\ translations[i].english = note.fields.front
              /\ LoadTranslations(file0.source)[i].english # note.fields.front
              /\ translations[i].spanish = LoadTranslations(file0.source)[i].spanish

(***************************************************************************)
(* The last-seen modification time in the apply loop of Pull.              *)
(***************************************************************************)
\* the keys of the table st whose record holds note n in either direction
HoldersOf(st, hp, n) ==
    {k \in DOMAIN st.table :
        hp[st.table[k]].es_en_note_id = n \/ hp[st.table[k]].en_es_note_id = n}

\* one turn of the apply loop that finds its entry and leaves the entry's key
\* as it was: the table has a record holding the note, and its last_pull_mod
\* is the note's fetched modification time when the turn changed a field of
\* the entry, and what it was when the turn changed none
PullApplyAdvancesOnChange ==
    (/\ InPull /\ pc = "pull_apply" /\ TurnFinds
     /\ SourceId(translations'[TurnEntry]) = SourceId(translations[TurnEntry])) =>
        LET note == modifiedNotes[idx]
            changed == translations'[TurnEntry] # translations[TurnEntry]
        IN  \E k \in HoldersOf(state', heap', note.noteId) :
               /\ k \in HoldersOf(state, heap, note.noteId)
               /\ heap'[state'.table[k]].last_pull_mod =
                     IF changed THEN note.mod ELSE heap[state.table[k]].last_pull_mod

\* C27: a turn of the apply loop of Pull on a modified note that does not
\* change the entry's key sets the last_pull_mod of the note's mapping record
\* to the note's fetched maximum if it changed a field of the entry, and
\* leaves it unchanged if it changed none
PullAdvancesTimestampOnChange == [][PullApplyAdvancesOnChange]_vars

(***************************************************************************)
(* The note ids of the table during Pull.                                  *)
(***************************************************************************)
\* the note ids the record under key k of table st holds
IdsOf(st, hp, k) ==
    {hp[st.table[k]].es_en_note_id, hp[st.table[k]].en_es_note_id} \ {NoId}

\* no two records of the table hold the same note id
NoSharedIds(st, hp) ==
    \A k1, k2 \in DOMAIN st.table : k1 # k2 => IdsOf(st, hp, k1) \cap IdsOf(st, hp, k2) = {}

\* the table of a turn of the apply loop between the two statements of the
\* remap: the old key is popped, the new record not yet inserted
PoppedTable == [state EXCEPT !.table = Drop(@, heap[modifiedNotes[idx].obj].source_id)]

RemapsOf(n) == {j \in DOMAIN remaps : n \in {remaps[j].es_en, remaps[j].en_es}}

\* one turn of the apply loop on a note whose pair an earlier turn of the run
\* has remapped: the entry that turn renamed gets the note's fields, by the
\* note's direction
PullApplyAfterRemap ==
    (InPull /\ pc = "pull_apply" /\ RemapsOf(modifiedNotes[idx].noteId) # {}) =>
        LET note == modifiedNotes[idx]
            f == note.fields
            r == remaps[CHOOSE j \in RemapsOf(note.noteId) :
                           \A l \in RemapsOf(note.noteId) : l <= j]
            t == translations[r.entry]
            u == translations'[r.entry]
        IN  /\ note.noteId = r.es_en =>
                  u.spanish = Taken(f.front, t.spanish) /\ u.english = Taken(f.back, t.english)
            /\ note.noteId = r.en_es =>
                  u.english = Taken(f.front, t.english) /\ u.spanish = Taken(f.back, t.spanish)
            /\ u.example = Taken(f.example, t.example)
            /\ u.notes = Taken(f.notes, t.notes)

\* C29: when a Pull processes two modified notes of one pair and the first
\* changes the entry's Spanish text, the second is resolved to the same entry
\* through the new key of the mapping and its changes are applied to it
PullAppliesSecondNoteAfterRemap == [][PullApplyAfterRemap]_vars

(***************************************************************************)
(* The fingerprint of a record the create loop makes.                      *)
(***************************************************************************)
\* the table and the objects of the create loop after its first i turns over
\* the answer resp
AfterTurns(resp, i) ==
    CreateLoop([state |-> state, heap |-> heap, counts |-> NoCounts],
               newEntries, SubSeq(resp, 1, i), 1)

\* the step of Push that calls addNotes and runs the create loop over its
\* answer: the turn that makes an entry's record leaves the record without the
\* entry's fingerprint, and when the loop is done the record has it
PushCreateSetsHashAtEnd ==
    (/\ InPush /\ pc = "push_create" /\ Len(calls') = Len(calls) + 1
     /\ calls'[Len(calls')].op = "addNotes") =>
        LET resp == calls'[Len(calls')].resp
        IN  \A i \in DOMAIN resp :
               LET t == newEntries[EntryOf(i)]
                   k == SourceId(t)
                   was == AfterTurns(resp, i - 1)
                   is == AfterTurns(resp, i)
               IN  (~HasMapping(was.state, k) /\ HasMapping(is.state, k)) =>
                      /\ is.heap[is.state.table[k]].last_push_hash # ContentHash(t)
                      /\ heap'[state'.table[k]].last_push_hash = ContentHash(t)

\* C30: when the create phase of Push makes a new mapping record on the first
\* created card of a pair, the record's fingerprint is left unset at creation
\* and is set to the entry's fingerprint only once the creation cycle of the
\* batch is done
PushCreateLeavesHashUnset == [][PushCreateSetsHashAtEnd]_vars

(***************************************************************************)
(* Push runs and the editor alone: nobody edits the remote collection and  *)
(* Pull never runs.                                                        *)
(***************************************************************************)
PushNext ==
    \/ \E dry \in BOOLEAN : PushStart(dry)
    \/ \E o \in Outcomes, failed \in SUBSET (1..(2 * MaxEntries)), ok \in BOOLEAN :
          PushCreate(o, failed, ok)
    \/ \E o1, o2 \in Outcomes, ok \in BOOLEAN : PushUpdate(o1, o2, ok)
    \/ \E o \in Outcomes, ok \in BOOLEAN : PushDelete(o, ok)
    \/ \E ok, auto \in BOOLEAN : PushStamp(ok, auto)
    \/ \E o \in Outcomes : PushSync(o)
    \/ Finish
    \/ \E i \in 1..MaxEntries, f \in Fields : \E v \in ValuesOf(f) : EditField(i, f, v)
    \/ \E sp \in SpanishTexts : AddEntry(Translation(sp, <<"x">>, Empty, Empty, <<>>))
    \/ \E i \in 1..MaxEntries : DeleteEntry(i)

PushSpec == Init /\ [][PushNext]_vars

\* the fields of note n as the remote holds them
FieldsOfNote(n) == Note(notes[n].front, notes[n].back, notes[n].example, notes[n].notes)

\* the entries of the source file whose key is k
EntriesOf(k) ==
    {t \in {LoadTranslations(sourceFile)[i] : i \in DOMAIN sourceFile} : SourceId(t) = k}

\* C31: after any Push run, with per-card API failures and no edits in the
\* remote, a mapping record whose stored hash is the hash of its entry has
\* every note it references holding the fields built from the entry
PushedHashMeansCardsCurrent ==
    pc = "idle" =>
        \A k \in DOMAIN stateFile.mappings : \A t \in EntriesOf(k) :
            LET m == stateFile.mappings[k]
            IN  m.last_push_hash = ContentHash(t) =>
                   /\ m.es_en_note_id # NoId =>
                         /\ m.es_en_note_id \in DOMAIN notes
                         /\ FieldsOfNote(m.es_en_note_id) = BuildFields(t, "es_en")
                   /\ m.en_es_note_id # NoId =>
                         /\ m.en_es_note_id \in DOMAIN notes
                         /\ FieldsOfNote(m.en_es_note_id) = BuildFields(t, "en_es")

(***************************************************************************)
(* The key of a record and the key it is stored under.                     *)
(***************************************************************************)
\* C32: after any sequence of Push and Pull runs from an empty state, every
\* mapping record, in the state file and in the table of the run under way,
\* is stored under the key its own source_id field holds
RecordsStoredUnderOwnKey ==
    /\ \A k \in DOMAIN stateFile.mappings : stateFile.mappings[k].source_id = k
    /\ \A k \in DOMAIN state.table : heap[state.table[k]].source_id = k

\* a Pull that remapped a key has saved the state: the file holds the record
\* under the new key, next to what Push had stored
PullSavedRemappedRecord ==
    /\ InPull /\ pc = "end" /\ error = "" /\ remaps # <<>>
    /\ saves = <<Write("source", TRUE), Write("state", TRUE)>>
    /\ remaps[1].new \in DOMAIN stateFile.mappings
    /\ remaps[1].new \notin DOMAIN file0.state.mappings
    /\ stateFile.mappings[remaps[1].new].source_id = remaps[1].new

(***************************************************************************)
(* What a Pull leaves of the keys of the source and of the note ids.       *)
(***************************************************************************)
\* C33: when the entries of the source file have pairwise different keys
\* before a Pull, the entries of the source file the Pull writes have
\* pairwise different keys too, whatever was edited in the remote
PullKeepsKeysUnique ==
    (InPull /\ Wrote("source") /\ ~HasCollision(LoadTranslations(file0.source))) =>
        ~HasCollision(LoadTranslations(sourceFile))

\* the note ids the records of a state document hold
NoteIdsOf(f) ==
    UNION {{f.mappings[k].es_en_note_id, f.mappings[k].en_es_note_id} :
             k \in DOMAIN f.mappings} \ {NoId}

\* C34: the note ids the mapping records reference are the same after a Pull
\* as before it, whatever was edited in the remote, remaps of keys included
PullKeepsNoteIds ==
    InPull => NoteIdsOf(stateFile) = NoteIdsOf(file0.state)

(***************************************************************************)
(* The last-seen modification time across the turns of a Pull.             *)
(***************************************************************************)
\* one turn of the apply loop: a record that is in the table before and
\* after the turn, with the same notes, has a last_pull_mod that is not
\* smaller after the turn than before it
PullTurnKeepsModMonotone ==
    (InPull /\ pc = "pull_apply") =>
        \A k \in DOMAIN state.table \cap DOMAIN state'.table :
            IdsOf(state, heap, k) = IdsOf(state', heap', k) =>
                heap'[state'.table[k]].last_pull_mod >= heap[state.table[k]].last_pull_mod

\* C35: the last_pull_mod of a mapping record never decreases in a Pull, also
\* when both notes of a pair are modified with different modification times:
\* no assignment of the run leaves it smaller than it was before the assignment
PullModNeverDecreases == [][PullTurnKeepsModMonotone]_vars

(***************************************************************************)
(* Push, then Pull.                                                        *)
(***************************************************************************)
\* the files and the remote as a Push leaves them when every call succeeded:
\* each entry of the source document has a record with its hash and both its
\* notes, and the notes hold the fields built from the entry
PushedInFull(source, stateDoc) ==
    \A i \in DOMAIN source :
        LET t == LoadTranslations(source)[i]
            k == SourceId(t)
        IN  /\ k \in DOMAIN stateDoc.mappings
            /\ stateDoc.mappings[k].last_push_hash = ContentHash(t)
            /\ stateDoc.mappings[k].es_en_note_id \in DOMAIN notes
            /\ stateDoc.mappings[k].en_es_note_id \in DOMAIN notes
            /\ FieldsOfNote(stateDoc.mappings[k].es_en_note_id) = BuildFields(t, "es_en")
            /\ FieldsOfNote(stateDoc.mappings[k].en_es_note_id) = BuildFields(t, "en_es")

\* C36: a Pull that follows a Push in which every remote call succeeded, with
\* no edit in the remote in between, leaves the fields of every entry as
\* they were, also for an example longer than the configured maximum
PushThenPullIsRoundTrip ==
    (/\ InPull /\ pc \in {"pull_apply", "pull_save", "pull_state", "end"}
     /\ touched = {} /\ ~HasCollision(LoadTranslations(file0.source))
     /\ PushedInFull(file0.source, file0.state)) =>
        /\ translations \in {<<>>, LoadTranslations(file0.source)}
        /\ LoadTranslations(sourceFile) = LoadTranslations(file0.source)

(***************************************************************************)
(* A record with a card missing, in the Push runs that follow.             *)
(***************************************************************************)
\* the fields of a record that hold the note ids of its two directions
IdFields == {"es_en_note_id", "en_es_note_id"}

\* C37: a Push puts in its creation batch only entries whose key has no
\* record in the state file it loaded; a record loaded with a direction whose
\* note id is null keeps that direction null as long as it exists, and the
\* run issues no call for that direction
PushNeverCompletesPair ==
    InPush =>
        /\ \A j \in DOMAIN newEntries :
              SourceId(newEntries[j]) \notin DOMAIN file0.state.mappings
        /\ \A c \in DOMAIN calls : NoId \notin calls[c].ids
        /\ \A k \in DOMAIN file0.state.mappings : \A d \in IdFields :
              file0.state.mappings[k][d] = NoId =>
                 /\ k \in DOMAIN state.table => heap[state.table[k]][d] = NoId
                 /\ k \in DOMAIN stateFile.mappings => stateFile.mappings[k][d] = NoId

\* a Push that updated an entry whose record has one card only: one field
\* update was issued for the entry, the run is past its update phase and the
\* record still has no id for the other direction
PushUpdatedHalfPair ==
    /\ InPush /\ pc \in {"push_stamp", "end"} /\ error = ""
    /\ Len(updatedEntries) = 1 /\ newEntries = <<>>
    /\ LET k == SourceId(updatedEntries[1].trans)
       IN  /\ k \in DOMAIN file0.state.mappings /\ k \in DOMAIN stateFile.mappings
           /\ \E d \in IdFields :
                 /\ file0.state.mappings[k][d] = NoId
                 /\ stateFile.mappings[k][d] = NoId
           /\ stateFile.mappings[k].last_push_hash = ContentHash(updatedEntries[1].trans)
    /\ Cardinality(CallsOf("updateNoteFields")) = 1
    /\ \A c \in CallsOf("updateNoteFields") : calls[c].ok

(***************************************************************************)
(* A Push with nothing to push.                                            *)
(***************************************************************************)
\* the run's diff is empty
EmptyDiff ==
    /\ ~HasCollision(translations)
    /\ newEntries = <<>> /\ updatedEntries = <<>> /\ deletedIds = {}

\* C38: a Push that is not a dry run and whose diff is empty makes no remote
\* call and leaves the state file as it was, its last_push included
PushEmptyDiffTouchesNothing ==
    (InPush /\ ~dryRun /\ EmptyDiff) =>
        /\ pc = "end" /\ error = ""
        /\ calls = <<>> /\ saves = <<>> /\ remoteErrors = {}
        /\ stateFile = file0.state

\* a Push that is not a dry run has found every entry of the source file
\* pushed already; the clock has moved on since the last_push of the file
PushFoundNothingToDo ==
    /\ InPush /\ ~dryRun /\ EmptyDiff /\ pc = "end"
    /\ translations # <<>> /\ file0.state.exists
    /\ DOMAIN file0.state.mappings = Keys(translations)
    /\ stateFile.last_push = file0.state.last_push
    /\ stateFile.last_push # 0 /\ now > stateFile.last_push

(***************************************************************************)
(* The fingerprint after a Pull.                                           *)
(***************************************************************************)
\* C39: after a Pull that changed fields of an entry, the record of the
\* entry's key holds a hash different from the entry's new hash, so that the
\* next Push classifies the entry as updated; also when the change remapped
\* the key
PullLeavesEntryToPush ==
    (InPull /\ pc = "end" /\ error = "" /\ Wrote("source") /\ Wrote("state")) =>
        \A i \in DOMAIN sourceFile :
            LET t == LoadTranslations(sourceFile)[i]
                k == SourceId(t)
            IN  t # LoadTranslations(file0.source)[i] =>
                   /\ k \in DOMAIN stateFile.mappings
                   /\ stateFile.mappings[k].last_push_hash # ContentHash(t)

(***************************************************************************)
(* Pull runs alone, started where a Push of the two-entry source has       *)
(* created every card and saved: the remote user edits notes, and a save   *)
(* of the state file may fail after the source file was written.           *)
(***************************************************************************)
RecoveryInit ==
    /\ sourceFile = DumpTranslations(SyncedSource)
    /\ stateFile = SyncedStateFile
    /\ notes = SyncedNotes /\ nextId = 1 + 2 * Len(SyncedSource) /\ now = 2
    /\ Idle
    /\ prevPush = "" /\ dirty = {} /\ touched = {}
    /\ temps = NoTemps /\ decks = {DeckName} /\ models = SetUpModels
    /\ runs = 0 /\ events = 0

RecoveryNext ==
    \/ \E dry \in BOOLEAN, o \in Outcomes, skipped \in SUBSET (DOMAIN notes) :
          PullStart(dry, o, skipped)
    \/ PullApply
    \/ \E ok \in BOOLEAN : PullSaveTranslations(ok)
    \/ \E ok \in BOOLEAN : PullSaveState(ok)
    \/ Finish
    \/ \E n \in DOMAIN notes, f \in RemoteFields : \E v \in RemoteValuesOf(f) :
          RemoteEdit(n, f, v)

RecoverySpec == RecoveryInit /\ [][RecoveryNext]_vars

\* the run started on the files an earlier Pull left when it stopped between
\* its two writes: the source file is a new one, the state file is still the
\* one no Pull has saved
AfterInterruptedPull ==
    /\ file0.state = SyncedStateFile
    /\ file0.source # DumpTranslations(SyncedSource)

\* C40: when a Pull stopped after it wrote the source file and before it
\* wrote the state file, a Pull run again to completion leaves every record
\* under the key of an entry of the source file, so that the diff of the Push
\* that follows has no new entry and no deleted key; also when the Pull that
\* stopped had remapped a key
PullRerunRecovers ==
    (/\ InPull /\ pc = "end" /\ error = "" /\ ~dryRun /\ remoteErrors = {}
     /\ AfterInterruptedPull) =>
        LET ts == LoadTranslations(sourceFile)
        IN  /\ DOMAIN stateFile.mappings \subseteq Keys(ts)
            /\ DiffNew(ts, LoadState(stateFile)) = <<>>
            /\ DiffDeleted(ts, LoadState(stateFile)) = {}

====
